---- MODULE Spec2Model ----
(***************************************************************************)
(* Model of the sentiment / trading analytics engine:                      *)
(*   DataProcessor        (src/data_processor.py)                          *)
(*   TradingAnalyzer      (src/analysis.py)                                *)
(*   DashboardVisualizer._prepare_daily_correlation_data                   *)
(*                        (src/visualizations.py)                          *)
(*   rolling_correlation  (src/utils.py)                                   *)
(*                                                                         *)
(* Representation.                                                         *)
(*   - A nullable cell (NaN / NaT / None) is a sequence of length <= 1:    *)
(*     <<>> is the missing value, <<v>> holds v.                           *)
(*   - A float that results from a division is the unreduced fraction      *)
(*     [n, d] with d >= 0; d = 0 is what numpy yields for a division by    *)
(*     zero: NaN when n = 0, +inf when n > 0, -inf when n < 0.             *)
(*   - A timestamp (datetime64) is a number of seconds since the epoch; a  *)
(*     calendar date is a number of days since the epoch.                  *)
(*   - A sentiment record carries the set of its columns whose cell is     *)
(*     missing in the field missing.                                       *)
(*   - A table is [cols, rows]: the set of its column names and the        *)
(*     sequence of its rows; a row field is meaningful only when its       *)
(*     column is in cols.                                                  *)
(***************************************************************************)
EXTENDS Integers, Sequences, FiniteSets, TLC

VARIABLES
    fear_greed_data,   \* TradingAnalyzer.fear_greed_data: the sentiment table
    trading_data,      \* TradingAnalyzer.trading_data: the trade table
    merged_data,       \* TradingAnalyzer.merged_data: row-level left join
    daily_data,        \* TradingAnalyzer.daily_data: the daily aggregate
    series,            \* the argument of a series function applied on its own
    data_loaded,       \* st.session_state.data_loaded
    ret                \* the last operation and what it returned

vars == <<fear_greed_data, trading_data, merged_data, daily_data, series,
          data_loaded, ret>>

---------------------------------------------------------------------------
(* Nullable cells and floats *)

None == <<>>
Some(v) == <<v>>
IsNull(o) == o = <<>>

Frac(n, d) == [n |-> n, d |-> d]
IsNaN(f) == f.d = 0 /\ f.n = 0
IsFinite(f) == f.d > 0
\* f <= g, f = g for finite fractions (denominators are positive)
FracLe(f, g) == f.n * g.d <= g.n * f.d
FracEq(f, g) == f.n * g.d = g.n * f.d

RECURSIVE SumSeq(_)
SumSeq(s) == IF s = <<>> THEN 0 ELSE s[1] + SumSeq(Tail(s))

\* the values of the non-null cells of a column, in row order
RECURSIVE NonNull(_)
NonNull(s) ==
    IF s = <<>> THEN <<>>
    ELSE IF IsNull(s[1]) THEN NonNull(Tail(s))
         ELSE <<s[1][1]>> \o NonNull(Tail(s))

\* the column f of a sequence of rows
Col(rows, f) == [i \in 1..Len(rows) |-> rows[i][f]]

SetMin(S) == CHOOSE x \in S : \A y \in S : x <= y
SetMax(S) == CHOOSE x \in S : \A y \in S : y <= x

\* the elements of a finite set of integers in ascending order
RECURSIVE SortedSeq(_)
SortedSeq(S) ==
    IF S = {} THEN <<>>
    ELSE <<SetMin(S)>> \o SortedSeq(S \ {SetMin(S)})

---------------------------------------------------------------------------
(* Calendar alignment: timestamps to days *)

\* pd.to_datetime(text, format='%d-%m-%Y %H:%M', errors='coerce').  The text
\* of a 'Timestamp IST' cell is the tuple of the fields the format reads,
\* <<day number, minute of the day>>; any other shape does not parse.
ParseIST(s) ==
    IF Len(s) = 2 /\ s[2] \in 0..1439
    THEN Some(s[1] * 86400 + s[2] * 60)
    ELSE None

\* pd.to_datetime(cell, unit='s', errors='coerce')
ParseEpoch(t) == IF IsNull(t) THEN None ELSE Some(t[1])

\* pd.to_datetime('2024-12-02'): day 20059 since the epoch, at midnight
DefaultDatetime == Some(20059 * 86400)

\* Series.dt.date
DtDate(dt) == IF IsNull(dt) THEN None ELSE Some(dt[1] \div 86400)

---------------------------------------------------------------------------
(* DataProcessor._clean_trading_data *)

\* the datetime of row r of table df, by the column the table has
CleanDatetime(df, r) ==
    IF "Timestamp IST" \in df.cols THEN ParseIST(r.ist)
    ELSE IF "Timestamp" \in df.cols THEN ParseEpoch(r.ts)
    ELSE DefaultDatetime

\* a before b in sort_values('datetime'): ascending, NaT last
DatetimeBefore(a, b) ==
    IF IsNull(a) THEN FALSE
    ELSE IF IsNull(b) THEN TRUE
    ELSE a[1] < b[1]

\* insert r behind the rows that do not sort after it
RECURSIVE InsertByDatetime(_, _)
InsertByDatetime(r, sorted) ==
    IF sorted = <<>> THEN <<r>>
    ELSE IF DatetimeBefore(r.datetime, sorted[1].datetime)
         THEN <<r>> \o sorted
         ELSE <<sorted[1]>> \o InsertByDatetime(r, Tail(sorted))

\* df.sort_values('datetime'): rows with equal keys keep their order
RECURSIVE SortByDatetime(_)
SortByDatetime(rows) ==
    IF rows = <<>> THEN <<>>
    ELSE InsertByDatetime(rows[Len(rows)],
                          SortByDatetime(SubSeq(rows, 1, Len(rows) - 1)))

_clean_trading_data(df) ==
    LET stamped == [i \in 1..Len(df.rows) |->
                      [df.rows[i] EXCEPT !.datetime = CleanDatetime(df, df.rows[i])]]
        kept    == SelectSeq(stamped, LAMBDA r : r.side # "nan")
        sorted  == SortByDatetime(kept)
    IN [cols |-> df.cols \cup {"datetime", "date"},
        rows |-> [i \in 1..Len(sorted) |->
                    [sorted[i] EXCEPT !.date = DtDate(sorted[i].datetime)]]]

---------------------------------------------------------------------------
(* TradingAnalyzer._merge_by_date *)

\* fg_df['date'] = pd.to_datetime(fg_df['date']).dt.date
FgDate(fg) == [i \in 1..Len(fg) |-> [fg[i] EXCEPT !.date = DtDate(Some(fg[i].date))]]

\* the epoch column taken before the local-time column (for C10)
MergeDatetimeEpochFirst(df, r) ==
    IF "Timestamp" \in df.cols THEN ParseEpoch(r.ts)
    ELSE IF "Timestamp IST" \in df.cols THEN ParseIST(r.ist)
    ELSE DefaultDatetime

MergeDatetime(df, r) ==
    IF "Timestamp IST" \in df.cols THEN ParseIST(r.ist)
    ELSE IF "Timestamp" \in df.cols THEN ParseEpoch(r.ts)
    ELSE DefaultDatetime

\* the trade rows with their 'date': kept when the table has the column,
\* derived otherwise
MergeTradingDf(df) ==
    IF "date" \in df.cols THEN df.rows
    ELSE [i \in 1..Len(df.rows) |->
            [df.rows[i] EXCEPT !.datetime = MergeDatetime(df, df.rows[i]),
                               !.date = DtDate(MergeDatetime(df, df.rows[i]))]]

\* pd.merge(trading_df, fg_df, on='date', how='left') and the renaming of
\* value / classification: one output row per matching sentiment record, in
\* the order of the sentiment table; one row with null sentiment when none
\* the cell of column c in the sentiment record f, null when missing
Cell(f, c) == IF c \in f.missing THEN None ELSE Some(f[c])

RECURSIVE LeftJoin(_, _)
LeftJoin(rows, fg) ==
    IF rows = <<>> THEN <<>>
    ELSE LET r == rows[1]
             m == SelectSeq(fg, LAMBDA f : f.date = r.date)
             out == IF m = <<>>
                    THEN << r @@ [sentiment_score |-> None,
                                  sentiment_category |-> None] >>
                    ELSE [i \in 1..Len(m) |->
                            r @@ [sentiment_score |-> Cell(m[i], "value"),
                                  sentiment_category |-> Cell(m[i], "classification")]]
         IN out \o LeftJoin(Tail(rows), fg)

_merge_by_date(fg, df) == LeftJoin(MergeTradingDf(df), FgDate(fg))

---------------------------------------------------------------------------
(* DashboardVisualizer._prepare_daily_correlation_data: the trade rows *)

VizDatetime(df, r) ==
    IF "Timestamp IST" \in df.cols THEN ParseIST(r.ist)
    ELSE IF "Timestamp" \in df.cols THEN ParseEpoch(r.ts)
    ELSE DefaultDatetime

VizTradingDf(df) ==
    IF "date" \in df.cols THEN df.rows
    ELSE [i \in 1..Len(df.rows) |->
            [df.rows[i] EXCEPT !.datetime = VizDatetime(df, df.rows[i]),
                               !.date = DtDate(VizDatetime(df, df.rows[i]))]]

---------------------------------------------------------------------------
(* TradingAnalyzer._create_daily_aggregates *)

\* one key per row that has a day, in row order (for C17)
GroupKeysPerRow(rows) == NonNull(Col(rows, "date"))

\* the group keys of groupby('date'): the non-null dates, ascending
GroupKeys(rows) ==
    SortedSeq({rows[i].date[1] : i \in {j \in 1..Len(rows) : ~IsNull(rows[j].date)}})

\* a grouping that puts the rows without a day into every group (for C11)
GroupWithNullDay(rows, d) ==
    SelectSeq(rows, LAMBDA r : r.date = Some(d) \/ IsNull(r.date))

Group(rows, d) == SelectSeq(rows, LAMBDA r : r.date = Some(d))

\* agg 'first': the first non-null cell, null when there is none
First(cells) == IF NonNull(cells) = <<>> THEN None ELSE Some(NonNull(cells)[1])

\* agg 'std' (ddof = 1), held as the variance std * std; null under 2 values
SampleVar(xs) ==
    IF Len(xs) < 2 THEN None
    ELSE Some(Frac(Len(xs) * SumSeq([i \in 1..Len(xs) |-> xs[i] * xs[i]])
                     - SumSeq(xs) * SumSeq(xs),
                   Len(xs) * (Len(xs) - 1)))

\* (x == 'BUY').sum()
BuyCount(g) == Len(SelectSeq(g, LAMBDA r : r.side = "BUY"))

\* (x > 0).sum() over 'Closed PnL': a missing value is not > 0
WinTrades(g) == Len(SelectSeq(NonNull(Col(g, "pnl")), LAMBDA x : x > 0))

\* agg 'count' of 'Closed PnL': the number of non-null cells
TradeCount(g) == Len(NonNull(Col(g, "pnl")))

\* a running sum that leaves the current row out (for C3)
RECURSIVE ExclusiveSumFrom(_, _)
ExclusiveSumFrom(acc, xs) ==
    IF xs = <<>> THEN <<>>
    ELSE <<acc>> \o ExclusiveSumFrom(acc + xs[1], Tail(xs))
CumSumExclusive(xs) == ExclusiveSumFrom(0, xs)

\* Series.cumsum()
RECURSIVE CumSumFrom(_, _)
CumSumFrom(acc, xs) ==
    IF xs = <<>> THEN <<>>
    ELSE <<acc + xs[1]>> \o CumSumFrom(acc + xs[1], Tail(xs))
CumSum(xs) == CumSumFrom(0, xs)

\* a fill from the next non-null cell instead (for C15)
RECURSIVE BFill(_)
BFill(cells) ==
    IF cells = <<>> THEN <<>>
    ELSE LET rest == BFill(Tail(cells))
         IN IF IsNull(cells[1]) /\ rest # <<>>
            THEN <<rest[1]>> \o rest
            ELSE <<cells[1]>> \o rest

\* Series.ffill(): a null cell takes the last non-null cell before it
RECURSIVE FFillFrom(_, _)
FFillFrom(last, cells) ==
    IF cells = <<>> THEN <<>>
    ELSE IF IsNull(cells[1])
         THEN <<last>> \o FFillFrom(last, Tail(cells))
         ELSE <<cells[1]>> \o FFillFrom(cells[1], Tail(cells))
FFill(cells) == FFillFrom(None, cells)

\* one row of the groupby(...).agg(...) result with the derived columns
\* that depend on the row alone
AggRow(d, g) ==
    LET pnl == NonNull(Col(g, "pnl"))
    IN [date               |-> d,
        total_pnl          |-> SumSeq(pnl),
        avg_pnl            |-> Frac(SumSeq(pnl), Len(pnl)),
        trade_count        |-> TradeCount(g),
        pnl_std            |-> SampleVar(pnl),
        total_volume       |-> SumSeq(Col(g, "size")),
        avg_volume         |-> Frac(SumSeq(Col(g, "size")), Len(g)),
        sentiment_score    |-> First(Col(g, "sentiment_score")),
        sentiment_category |-> First(Col(g, "sentiment_category")),
        buy_count          |-> BuyCount(g),
        total_fees         |-> SumSeq(Col(g, "fee")),
        sell_count         |-> TradeCount(g) - BuyCount(g),
        buy_ratio          |-> Frac(BuyCount(g), TradeCount(g)),
        win_trades         |-> WinTrades(g),
        win_rate           |-> Frac(WinTrades(g) * 100, TradeCount(g))]

_create_daily_aggregates(merged) ==
    LET keys == GroupKeys(merged)
        agg  == [i \in 1..Len(keys) |-> AggRow(keys[i], Group(merged, keys[i]))]
        cum  == CumSum(Col(agg, "total_pnl"))
        sc   == FFill(Col(agg, "sentiment_score"))
        cat  == FFill(Col(agg, "sentiment_category"))
    IN [i \in 1..Len(agg) |->
          [agg[i] EXCEPT !.sentiment_score = sc[i],
                         !.sentiment_category = cat[i]]
          @@ [cumulative_pnl |-> cum[i]]]

---------------------------------------------------------------------------
(* DataProcessor._clean_fear_greed_data *)

RECURSIVE InsertByDate(_, _)
InsertByDate(f, sorted) ==
    IF sorted = <<>> THEN <<f>>
    ELSE IF f.date < sorted[1].date
         THEN <<f>> \o sorted
         ELSE <<sorted[1]>> \o InsertByDate(f, Tail(sorted))

\* df.sort_values('date'): records of the same instant keep their order
RECURSIVE SortByDate(_)
SortByDate(fg) ==
    IF fg = <<>> THEN <<>>
    ELSE InsertByDate(fg[Len(fg)], SortByDate(SubSeq(fg, 1, Len(fg) - 1)))

\* every record, also one with a missing cell (for C30)
KeepAll(fg) == fg

\* df.dropna(): the records with no missing cell
DropNa(fg) == SelectSeq(fg, LAMBDA f : f.missing = {})

\* to_datetime and to_numeric(errors='coerce') leave a missing cell (NaT,
\* NaN) where the text does not convert: such cells are named by the field
\* missing of the raw record; dropna then removes the record
_clean_fear_greed_data(fg) == SortByDate(DropNa(fg))

---------------------------------------------------------------------------
(* Pearson correlation: Series.corr *)

\* the positions where both cells are numbers (pandas drops the other pairs)
ValidPairs(xs, ys) == {i \in 1..Len(xs) : ~IsNaN(xs[i]) /\ ~IsNaN(ys[i])}

RECURSIVE ProdDen(_, _)
ProdDen(fs, I) ==
    IF I = {} THEN 1
    ELSE LET i == CHOOSE j \in I : TRUE IN fs[i].d * ProdDen(fs, I \ {i})

RECURSIVE SumOver(_, _)
SumOver(f, I) ==
    IF I = {} THEN 0
    ELSE LET i == CHOOSE j \in I : TRUE IN f[i] + SumOver(f, I \ {i})

Abs(x) == IF x < 0 THEN -x ELSE x

RECURSIVE GCD(_, _)
GCD(a, b) == IF b = 0 THEN a ELSE GCD(b, a % b)

\* the greatest common divisor of the integers f[i], i in I; 1 when all are 0
RECURSIVE GCDOver(_, _)
GCDOver(f, I) ==
    IF I = {} THEN 0
    ELSE LET i == CHOOSE j \in I : TRUE IN GCD(Abs(f[i]), GCDOver(f, I \ {i}))
Scale(f, I) == IF GCDOver(f, I) = 0 THEN 1 ELSE GCDOver(f, I)

\* Series.corr(other) on two columns of finite fractions.  The coefficient
\* cov / sqrt(vx * vy) does not change when a column is multiplied by a
\* positive number, so each column is first brought to integers without a
\* common divisor; the coefficient is then held by the three integers cov,
\* vx, vy.  It is NaN with fewer than 2 valid pairs or when one of the
\* columns has zero variance.
Corr(xs, ys) ==
    LET I  == ValidPairs(xs, ys)
        n  == Cardinality(I)
        Lx == ProdDen(xs, I)
        Ly == ProdDen(ys, I)
        X0 == [i \in I |-> xs[i].n * (Lx \div xs[i].d)]
        Y0 == [i \in I |-> ys[i].n * (Ly \div ys[i].d)]
        X  == [i \in I |-> X0[i] \div Scale(X0, I)]
        Y  == [i \in I |-> Y0[i] \div Scale(Y0, I)]
        sx == SumOver(X, I)
        sy == SumOver(Y, I)
        cov == n * SumOver([i \in I |-> X[i] * Y[i]], I) - sx * sy
        vx  == n * SumOver([i \in I |-> X[i] * X[i]], I) - sx * sx
        vy  == n * SumOver([i \in I |-> Y[i] * Y[i]], I) - sy * sy
    IN IF n < 2 \/ vx = 0 \/ vy = 0
       THEN [nan |-> TRUE, cov |-> 0, vx |-> 0, vy |-> 0]
       ELSE [nan |-> FALSE, cov |-> cov, vx |-> vx, vy |-> vy]

\* NaN as a correlation value (for C12)
NaNCorr == [nan |-> TRUE, cov |-> 0, vx |-> 0, vy |-> 0]

\* the number 0 as a correlation value
ZeroCorr == [nan |-> FALSE, cov |-> 0, vx |-> 1, vy |-> 1]
CorrIsZero(c) == ~c.nan /\ c.cov = 0

IntCol(rows, f) == [i \in 1..Len(rows) |-> Frac(rows[i][f], 1)]

---------------------------------------------------------------------------
(* TradingAnalyzer: risk helpers *)

\* Series.std() (ddof = 1) as the variance; NaN (null) under 2 values
SeriesVar(xs) == SampleVar(xs)

\* _calculate_sharpe_ratio(returns, risk_free_rate = 0.02).  The result
\* num / sqrt(var) * sqrt(252) is held by num (the mean excess return, with
\* 0.02 / 252 = 1 / 12600) and var; nan marks a NaN result.
SharpeZero == [nan |-> FALSE, num |-> Frac(0, 1), var |-> Frac(1, 1)]
SharpeNaN == [nan |-> TRUE, num |-> Frac(0, 0), var |-> Frac(0, 0)]
_calculate_sharpe_ratio(returns) ==
    IF Len(returns) = 0 THEN SharpeZero
    ELSE IF ~IsNull(SeriesVar(returns)) /\ SeriesVar(returns)[1].n = 0
         THEN SharpeZero
    ELSE IF IsNull(SeriesVar(returns)) THEN SharpeNaN
    ELSE [nan |-> FALSE,
          num |-> Frac(12600 * SumSeq(returns) - Len(returns),
                       12600 * Len(returns)),
          var |-> SeriesVar(returns)[1]]
SharpeIsZero(s) == ~s.nan /\ s.num.n = 0

\* the maximum of the whole series on every row (for C7)
RECURSIVE SeqMax(_)
SeqMax(xs) ==
    IF Len(xs) = 1 THEN xs[1]
    ELSE IF xs[1] >= SeqMax(Tail(xs)) THEN xs[1] ELSE SeqMax(Tail(xs))
WholeMax(xs) == [i \in 1..Len(xs) |-> SeqMax(xs)]

\* Series.expanding().max()
RECURSIVE ExpandingMaxFrom(_, _)
ExpandingMaxFrom(m, xs) ==
    IF xs = <<>> THEN <<>>
    ELSE LET m2 == IF xs[1] > m THEN xs[1] ELSE m
         IN <<m2>> \o ExpandingMaxFrom(m2, Tail(xs))
ExpandingMax(xs) == IF xs = <<>> THEN <<>> ELSE ExpandingMaxFrom(xs[1], xs)

\* Series.min()
RECURSIVE SeqMin(_)
SeqMin(xs) ==
    IF Len(xs) = 1 THEN xs[1]
    ELSE IF xs[1] <= SeqMin(Tail(xs)) THEN xs[1] ELSE SeqMin(Tail(xs))

\* _calculate_max_drawdown(cumulative_returns)
_calculate_max_drawdown(cumulative_returns) ==
    IF Len(cumulative_returns) = 0 THEN 0
    ELSE LET running_max == ExpandingMax(cumulative_returns)
             drawdown == [i \in 1..Len(cumulative_returns) |->
                            cumulative_returns[i] - running_max[i]]
         IN SeqMin(drawdown)

---------------------------------------------------------------------------
(* TradingAnalyzer: queries *)

\* daily_data.dropna(subset=['sentiment_score'])
DropNaSentiment(daily) == SelectSeq(daily, LAMBDA r : ~IsNull(r.sentiment_score))

SentimentCol(rows) == [i \in 1..Len(rows) |-> Frac(rows[i].sentiment_score[1], 1)]

\* calculate_sentiment_trading_correlations
calculate_sentiment_trading_correlations(daily) ==
    LET clean_data == DropNaSentiment(daily)
    IN IF Len(clean_data) = 0
       THEN [sentiment_pnl |-> ZeroCorr, sentiment_volume |-> ZeroCorr,
             sentiment_trades |-> ZeroCorr, sentiment_winrate |-> ZeroCorr]
       ELSE [sentiment_pnl |->
                Corr(SentimentCol(clean_data), IntCol(clean_data, "total_pnl")),
             sentiment_volume |->
                Corr(SentimentCol(clean_data), IntCol(clean_data, "total_volume")),
             sentiment_trades |->
                Corr(SentimentCol(clean_data), IntCol(clean_data, "trade_count")),
             sentiment_winrate |->
                Corr(SentimentCol(clean_data), Col(clean_data, "win_rate"))]

\* get_correlation_data
get_correlation_data(daily) ==
    LET clean_data == DropNaSentiment(daily)
    IN [i \in 1..Len(clean_data) |->
          [date               |-> clean_data[i].date,
           sentiment_score    |-> clean_data[i].sentiment_score,
           sentiment_category |-> clean_data[i].sentiment_category,
           total_pnl          |-> clean_data[i].total_pnl,
           total_volume       |-> clean_data[i].total_volume,
           trade_count        |-> clean_data[i].trade_count,
           win_rate           |-> clean_data[i].win_rate]]

\* get_detailed_metrics: a copy of the daily aggregate
get_detailed_metrics(daily) == daily

\* the per-trade series trading_data['Closed PnL'] (for C24)
TradeReturns(df, daily) == NonNull(Col(df.rows, "pnl"))

\* daily_returns: daily_data is a table once the analyzer is constructed, so
\* the series is its column total_pnl
DailyReturns(df, daily) == Col(daily, "total_pnl")

\* calculate_trading_metrics; the empty map is <<>>
calculate_trading_metrics(df, daily) ==
    IF Len(df.rows) = 0 THEN <<>>
    ELSE LET pnl == NonNull(Col(df.rows, "pnl"))
             total_trades == Len(df.rows)
             profitable_trades == Len(SelectSeq(pnl, LAMBDA x : x > 0))
             daily_returns == DailyReturns(df, daily)
         IN [total_trades      |-> total_trades,
             win_rate          |-> Frac(profitable_trades * 100, total_trades),
             total_pnl         |-> SumSeq(pnl),
             avg_profit        |-> Frac(SumSeq(pnl), Len(pnl)),
             total_volume      |-> SumSeq(Col(df.rows, "size")),
             sharpe_ratio      |-> _calculate_sharpe_ratio(daily_returns),
             max_drawdown      |-> _calculate_max_drawdown(CumSum(daily_returns)),
             profitable_trades |-> profitable_trades,
             losing_trades     |-> total_trades - profitable_trades]

\* DataFrame.dropna(subset=['sentiment_category', 'total_pnl']): total_pnl
\* is a sum and is never null
DropNaCategory(daily) == SelectSeq(daily, LAMBDA r : ~IsNull(r.sentiment_category))

\* Series.unique(): the categories of the rows, as a set
Unique(rows) == {rows[i].sentiment_category[1] : i \in 1..Len(rows)}

\* scipy.stats.ttest_ind(a, b) with equal variances.  The statistic
\* (mean(a) - mean(b)) / sqrt(sp2 * (1 / na + 1 / nb)) is held by its
\* numerator num and by the square var of its denominator; the p-value is a
\* function of the statistic and of dof = na + nb - 2 and is held by dof.
ttest_ind(a, b) ==
    LET na == Len(a)
        nb == Len(b)
        ssa == na * SumSeq([i \in 1..na |-> a[i] * a[i]]) - SumSeq(a) * SumSeq(a)
        ssb == nb * SumSeq([i \in 1..nb |-> b[i] * b[i]]) - SumSeq(b) * SumSeq(b)
    IN [num |-> Frac(SumSeq(a) * nb - SumSeq(b) * na, na * nb),
        var |-> Frac((ssa * nb + ssb * na) * (na + nb),
                     na * nb * (na + nb - 2) * na * nb),
        dof |-> na + nb - 2]

\* a test on samples of at least 1 observation (for C13)
TestableFromOne(a, b) == Len(a) > 0 /\ Len(b) > 0

\* len(category_data) > 1 and len(other_data) > 1
Testable(a, b) == Len(a) > 1 /\ Len(b) > 1

\* perform_statistical_tests: the map from category to its result entry
perform_statistical_tests(daily) ==
    LET clean_data == DropNaCategory(daily)
        sentiment_categories == Unique(clean_data)
        category_data(c) ==
            Col(SelectSeq(clean_data, LAMBDA r : r.sentiment_category = Some(c)),
                "total_pnl")
        other_data(c) ==
            Col(SelectSeq(clean_data, LAMBDA r : r.sentiment_category # Some(c)),
                "total_pnl")
        tested == {c \in sentiment_categories :
                      Testable(category_data(c), other_data(c))}
    IN [c \in tested |->
          [mean_pnl    |-> Frac(SumSeq(category_data(c)), Len(category_data(c))),
           t_statistic |-> ttest_ind(category_data(c), other_data(c)),
           sample_size |-> Len(category_data(c))]]

---------------------------------------------------------------------------
(* TradingAnalyzer.generate_insights *)

\* abs(c) > 0.3 for a correlation c = cov / sqrt(vx * vy); False for NaN
CorrAbove(c) == ~c.nan /\ 100 * c.cov * c.cov > 9 * c.vx * c.vy

\* "positive" if c > 0 else "negative"
Direction(c) == IF c.cov > 0 THEN "positive" ELSE "negative"

\* the order of the category labels as strings
LabelOrder == <<"Extreme Fear", "Extreme Greed", "Fear", "Greed", "Neutral">>

\* the keys of groupby('sentiment_category'): the labels of the rows in
\* ascending order, rows without a label left out
CategoryKeys(daily) ==
    SelectSeq(LabelOrder, LAMBDA c :
        \E i \in 1..Len(daily) : daily[i].sentiment_category = Some(c))

\* groupby('sentiment_category')['total_pnl'].mean(), in the order of the keys
CategoryMeans(daily) ==
    [k \in 1..Len(CategoryKeys(daily)) |->
        LET g == SelectSeq(daily, LAMBDA r :
                     r.sentiment_category = Some(CategoryKeys(daily)[k]))
        IN Frac(SumSeq(Col(g, "total_pnl")), Len(g))]

\* the position of the last greatest value (for C20)
IdxMaxLast(means) ==
    CHOOSE i \in 1..Len(means) :
        /\ \A j \in 1..Len(means) : FracLe(means[j], means[i])
        /\ \A j \in (i + 1)..Len(means) : ~FracEq(means[j], means[i])

\* Series.idxmax(): the position of the first greatest value
IdxMax(means) ==
    CHOOSE i \in 1..Len(means) :
        /\ \A j \in 1..Len(means) : FracLe(means[j], means[i])
        /\ \A j \in 1..(i - 1) : ~FracEq(means[j], means[i])

\* Series.idxmin(): the position of the first least value
IdxMin(means) ==
    CHOOSE i \in 1..Len(means) :
        /\ \A j \in 1..Len(means) : FracLe(means[i], means[j])
        /\ \A j \in 1..(i - 1) : ~FracEq(means[j], means[i])

\* the win-rate insights with the bounds 60 and 40 included (for C19)
WinRateInsightsInclusive(w) ==
    IF w.n >= 60 * w.d THEN <<"high_win_rate">>
    ELSE IF w.n <= 40 * w.d THEN <<"low_win_rate">>
    ELSE <<>>

\* the kinds of insight lines 221-224 add for the win rate w
WinRateInsights(w) ==
    IF w.n > 60 * w.d THEN <<"high_win_rate">>
    ELSE IF w.n < 40 * w.d THEN <<"low_win_rate">>
    ELSE <<>>

\* generate_insights.  An insight is held by the fields its text is made of.
\* The result is [raised, insights]: raised names the exception that ends
\* the call, "none" when it returns.
generate_insights(df, daily) ==
    LET correlations == calculate_sentiment_trading_correlations(daily)
        pnl_insight ==
            IF CorrAbove(correlations.sentiment_pnl)
            THEN <<[kind |-> "sentiment_pnl_correlation",
                    direction |-> Direction(correlations.sentiment_pnl),
                    value |-> correlations.sentiment_pnl]>>
            ELSE <<>>
        volume_insight ==
            IF CorrAbove(correlations.sentiment_volume)
            THEN <<[kind |-> "sentiment_volume_correlation",
                    direction |-> Direction(correlations.sentiment_volume),
                    value |-> correlations.sentiment_volume]>>
            ELSE <<>>
        keys == CategoryKeys(daily)
        sentiment_performance == CategoryMeans(daily)
        best == IF Len(keys) > 0 THEN IdxMax(sentiment_performance) ELSE 0
        worst == IF Len(keys) > 0 THEN IdxMin(sentiment_performance) ELSE 0
        best_insight ==
            IF best # 0
            THEN <<[kind |-> "best_sentiment", category |-> keys[best],
                    value |-> sentiment_performance[best]]>>
            ELSE <<>>
        worst_insight ==
            IF worst # 0 /\ worst # best
            THEN <<[kind |-> "worst_sentiment", category |-> keys[worst],
                    value |-> sentiment_performance[worst]]>>
            ELSE <<>>
        trading_metrics == calculate_trading_metrics(df, daily)
        \* trading_metrics.get('win_rate', 0)
        win_rate == IF "win_rate" \in DOMAIN trading_metrics
                    THEN trading_metrics.win_rate ELSE Frac(0, 1)
        before == pnl_insight \o volume_insight \o best_insight \o worst_insight
    IN IF WinRateInsights(win_rate) # <<>> /\ "win_rate" \notin DOMAIN trading_metrics
       THEN \* the text of the insight reads trading_metrics['win_rate']
            [raised |-> "KeyError", insights |-> <<>>]
       ELSE [raised |-> "none",
             insights |-> before \o
                 [i \in 1..Len(WinRateInsights(win_rate)) |->
                     [kind |-> WinRateInsights(win_rate)[i], value |-> win_rate]]]

---------------------------------------------------------------------------
(* TradingAnalyzer.generate_summary_report *)

\* the integers of a sequence in ascending order
RECURSIVE InsertInt(_, _)
InsertInt(x, sorted) ==
    IF sorted = <<>> THEN <<x>>
    ELSE IF x < sorted[1] THEN <<x>> \o sorted
         ELSE <<sorted[1]>> \o InsertInt(x, Tail(sorted))
RECURSIVE SortInts(_)
SortInts(xs) == IF xs = <<>> THEN <<>> ELSE InsertInt(xs[1], SortInts(Tail(xs)))

\* Series.median(): NaN for an empty series
Median(xs) ==
    LET n == Len(xs)
        sorted == SortInts(xs)
    IN IF n = 0 THEN Frac(0, 0)
       ELSE IF n % 2 = 1 THEN Frac(sorted[(n + 1) \div 2], 1)
       ELSE Frac(sorted[n \div 2] + sorted[n \div 2 + 1], 2)

\* value_counts().get(label, 0)
CountLabel(fg, label) == Len(SelectSeq(fg, LAMBDA f : f.classification = label))

\* calculate_sentiment_statistics; std_score is held as the variance
calculate_sentiment_statistics(fg) ==
    [extreme_fear_days  |-> CountLabel(fg, "Extreme Fear"),
     fear_days          |-> CountLabel(fg, "Fear"),
     neutral_days       |-> CountLabel(fg, "Neutral"),
     greed_days         |-> CountLabel(fg, "Greed"),
     extreme_greed_days |-> CountLabel(fg, "Extreme Greed"),
     avg_score          |-> Frac(SumSeq(Col(fg, "value")), Len(fg)),
     median_score       |-> Median(Col(fg, "value")),
     std_score          |-> SampleVar(Col(fg, "value"))]

\* trading_metrics.get(key, 0): default is the number 0 in the form the
\* metric has
Get(trading_metrics, key, default) ==
    IF key \in DOMAIN trading_metrics THEN trading_metrics[key] ELSE default

\* generate_summary_report: the rows of the table, each value before it is
\* formatted as text
generate_summary_report(fg, df, daily) ==
    LET trading_metrics == calculate_trading_metrics(df, daily)
        sentiment_stats == calculate_sentiment_statistics(fg)
        correlations == calculate_sentiment_trading_correlations(daily)
    IN << [Metric |-> "Total Trades",
           Value |-> Get(trading_metrics, "total_trades", 0)],
          [Metric |-> "Win Rate (%)",
           Value |-> Get(trading_metrics, "win_rate", Frac(0, 1))],
          [Metric |-> "Total PnL ($)",
           Value |-> Get(trading_metrics, "total_pnl", 0)],
          [Metric |-> "Average Sentiment Score",
           Value |-> sentiment_stats.avg_score],
          [Metric |-> "Sentiment-PnL Correlation",
           Value |-> correlations.sentiment_pnl],
          [Metric |-> "Sentiment-Volume Correlation",
           Value |-> correlations.sentiment_volume],
          [Metric |-> "Sharpe Ratio",
           Value |-> Get(trading_metrics, "sharpe_ratio", SharpeZero)],
          [Metric |-> "Max Drawdown ($)",
           Value |-> Get(trading_metrics, "max_drawdown", 0)] >>

---------------------------------------------------------------------------
(* Inputs *)

MaxTrades == 3
MaxSent == 2

SeqsUpTo(S, n) == UNION {[1..k -> S] : k \in 0..n}

TradeDays == {1, 2, 3}
SentimentDays == {1, 2}

\* 'Timestamp IST' cells: midnight of a trade day, and <<1>>, a text the
\* format does not match
ISTCells == {<<d, 0>> : d \in TradeDays} \cup {<<1>>}
TradeColumns == {"Timestamp IST", "Side", "Closed PnL", "Size USD", "Fee"}

\* the <<Side, Closed PnL>> cells of a row: both sides, and a winning, a
\* losing and a missing PnL
SidePnlCells ==
    {<<"BUY", Some(10)>>, <<"BUY", None>>, <<"SELL", Some(-20)>>, <<"SELL", Some(10)>>}

RawTradeRows ==
    {[ist |-> t, ts |-> None, side |-> sp[1], pnl |-> sp[2], size |-> 100,
      fee |-> 1, datetime |-> None, date |-> None] :
        t \in ISTCells, sp \in SidePnlCells}

RawTradeTables ==
    {[cols |-> TradeColumns, rows |-> rs] : rs \in SeqsUpTo(RawTradeRows, MaxTrades)}

ScoreLabels == {<<15, "Extreme Fear">>, <<60, "Greed">>}

RawSentimentRows ==
    {[date |-> d * 86400, value |-> sl[1], classification |-> sl[2],
      missing |-> {}] :
        d \in SentimentDays, sl \in ScoreLabels}

RawSentimentTables == SeqsUpTo(RawSentimentRows, MaxSent)

---------------------------------------------------------------------------
(* The analyzer over the tables the loader hands to it (app.py, *)
(* display_dashboard): state after TradingAnalyzer.__init__, then queries *)

NoRet == [op |-> "init", val |-> <<>>]

\* TradingAnalyzer.__init__ / _prepare_data; the analyzer is built by
\* display_dashboard, which runs when the session holds loaded data
Constructed(fg, df) ==
    /\ fear_greed_data = fg
    /\ trading_data = df
    /\ merged_data = _merge_by_date(fg, df)
    /\ daily_data = _create_daily_aggregates(merged_data)
    /\ data_loaded = TRUE

Init ==
    /\ \E fg \in RawSentimentTables, df \in RawTradeTables :
          Constructed(_clean_fear_greed_data(fg), _clean_trading_data(df))
    /\ series = <<>>
    /\ ret = NoRet

Analyzer == <<fear_greed_data, trading_data, merged_data, daily_data, series,
              data_loaded>>

QueryTradingMetrics ==
    /\ ret' = [op |-> "calculate_trading_metrics",
               val |-> calculate_trading_metrics(trading_data, daily_data)]
    /\ UNCHANGED Analyzer

QueryCorrelations ==
    /\ ret' = [op |-> "calculate_sentiment_trading_correlations",
               val |-> calculate_sentiment_trading_correlations(daily_data)]
    /\ UNCHANGED Analyzer

\* the rows without sentiment dropped from daily_data itself (for C21)
QueryCorrelationDataInPlace ==
    /\ daily_data' = DropNaSentiment(daily_data)
    /\ ret' = [op |-> "get_correlation_data",
               val |-> get_correlation_data(daily_data')]
    /\ UNCHANGED <<fear_greed_data, trading_data, merged_data, series, data_loaded>>

QueryCorrelationData ==
    /\ ret' = [op |-> "get_correlation_data",
               val |-> get_correlation_data(daily_data)]
    /\ UNCHANGED Analyzer

Next ==
    \/ QueryTradingMetrics
    \/ QueryCorrelations
    \/ QueryCorrelationData

Spec == Init /\ [][Next]_vars

---------------------------------------------------------------------------
(* The analyzer as display_dashboard rebuilds it on every rerun of the page *)

MaxDailyTrades == 3
MaxDailySent == 1

\* the rows of a raw table are in time order already, rows without a
\* datetime last; _clean_trading_data sorts every other table into such a one
IsTimeOrdered(rows) ==
    \A i \in 1..Len(rows) - 1 :
        ~DatetimeBefore(ParseIST(rows[i + 1].ist), ParseIST(rows[i].ist))

\* one sentiment record for day 1 and one for day 2
DailySentimentRows ==
    {[date |-> 86400, value |-> 15, classification |-> "Extreme Fear",
      missing |-> {}],
     [date |-> 2 * 86400, value |-> 60, classification |-> "Greed",
      missing |-> {}]}

InitDaily ==
    /\ \E rs \in SeqsUpTo(RawTradeRows, MaxDailyTrades) :
          /\ IsTimeOrdered(rs)
          /\ \E fg \in SeqsUpTo(DailySentimentRows, MaxDailySent) :
                Constructed(_clean_fear_greed_data(fg),
                            _clean_trading_data([cols |-> TradeColumns, rows |-> rs]))
    /\ series = <<>>
    /\ ret = NoRet

\* display_dashboard: a new TradingAnalyzer over the same session tables
Rebuild ==
    /\ merged_data' = _merge_by_date(fear_greed_data, trading_data)
    /\ daily_data' = _create_daily_aggregates(merged_data')
    /\ ret' = NoRet
    /\ UNCHANGED <<fear_greed_data, trading_data, series, data_loaded>>

NextDaily ==
    \/ Rebuild
    \/ QueryTradingMetrics

SpecDaily == InitDaily /\ [][NextDaily]_vars

---------------------------------------------------------------------------
(* Daily aggregate: claims C1, C2, C3, C8, C9 *)

TradeRows == trading_data.rows

\* the trade rows of day d
RowsOfDay(d) == SelectSeq(TradeRows, LAMBDA r : r.date = Some(d))

\* the days of the trade table
DaysOfTrades ==
    {TradeRows[i].date[1] : i \in {j \in 1..Len(TradeRows) : ~IsNull(TradeRows[j].date)}}

\* the days of the sentiment table
SentimentDayOf(f) == f.date \div 86400
DaysOfSentiment == {SentimentDayOf(fear_greed_data[i]) : i \in 1..Len(fear_greed_data)}

RecordsOfDay(d) == SelectSeq(fear_greed_data, LAMBDA f : SentimentDayOf(f) = d)

AllTimestampsParse == \A i \in 1..Len(TradeRows) : ~IsNull(TradeRows[i].date)

\* C1: the sum of total_pnl over all rows of the daily aggregate equals the
\* sum of Closed PnL over all rows of the trade table.  A row whose timestamp
\* does not parse has no day and is in no aggregate by design, so the
\* statement is taken on the tables in which every timestamp parses, with any
\* sentiment table (also one with several records for a day).
C1_AggregationConservesTotal ==
    AllTimestampsParse =>
        SumSeq(Col(daily_data, "total_pnl")) = SumSeq(NonNull(Col(TradeRows, "pnl")))

\* C2: for every day of the daily aggregate, buy_count + sell_count equals
\* trade_count, sell_count is not negative and buy_ratio lies in [0, 1], also
\* on days with rows whose Closed PnL is missing.
C2_SideCountsConsistent ==
    \A i \in 1..Len(daily_data) :
        /\ daily_data[i].buy_count + daily_data[i].sell_count = daily_data[i].trade_count
        /\ daily_data[i].sell_count >= 0
        /\ IsFinite(daily_data[i].buy_ratio)
        /\ FracLe(Frac(0, 1), daily_data[i].buy_ratio)
        /\ FracLe(daily_data[i].buy_ratio, Frac(1, 1))

\* C3: the rows of the daily aggregate are in ascending order of day,
\* cumulative_pnl of the first row is its total_pnl, and cumulative_pnl of
\* every later row is cumulative_pnl of the row before plus its total_pnl.
C3_CumulativeIsRunningSum ==
    /\ \A i \in 1..Len(daily_data) - 1 : daily_data[i].date < daily_data[i + 1].date
    /\ Len(daily_data) > 0 => daily_data[1].cumulative_pnl = daily_data[1].total_pnl
    /\ \A i \in 2..Len(daily_data) :
          daily_data[i].cumulative_pnl =
              daily_data[i - 1].cumulative_pnl + daily_data[i].total_pnl

\* three days with non-zero totals, a table that was not sorted by day
\* before the aggregation could not have produced
C3_Witness ==
    /\ Len(daily_data) = 3
    /\ \A i \in 1..3 : daily_data[i].total_pnl # 0
    /\ daily_data[3].cumulative_pnl # daily_data[3].total_pnl
    /\ daily_data[3].cumulative_pnl # daily_data[2].cumulative_pnl

\* the first record of each day of the sentiment table, in table order
RECURSIVE FirstPerDay(_, _)
FirstPerDay(fg, seen) ==
    IF fg = <<>> THEN <<>>
    ELSE IF SentimentDayOf(fg[1]) \in seen
         THEN FirstPerDay(Tail(fg), seen)
         ELSE <<fg[1]>> \o FirstPerDay(Tail(fg), seen \cup {SentimentDayOf(fg[1])})

TradeFields(row) ==
    <<row.date, row.trade_count, row.total_pnl, row.total_volume,
      row.buy_count, row.win_trades, row.total_fees>>

\* C8: when the sentiment table holds more than one record for a day, the
\* daily aggregate has one row for the day, with the sentiment of the first
\* of the records and with the trade-derived fields it has when the
\* sentiment table holds only the first record of each day.
C8_DuplicateSentimentFirstWins ==
    LET single == _create_daily_aggregates(
                      _merge_by_date(FirstPerDay(fear_greed_data, {}), trading_data))
    IN \A d \in DaysOfTrades :
          Len(RecordsOfDay(d)) > 1 =>
              /\ Cardinality({i \in 1..Len(daily_data) : daily_data[i].date = d}) = 1
              /\ \A i \in 1..Len(daily_data) :
                    daily_data[i].date = d =>
                        /\ daily_data[i].sentiment_score = Some(RecordsOfDay(d)[1].value)
                        /\ daily_data[i].sentiment_category =
                              Some(RecordsOfDay(d)[1].classification)
                        /\ Len(single) = Len(daily_data)
                        /\ TradeFields(daily_data[i]) = TradeFields(single[i])

\* C9: for every day of the trade table the row of the daily aggregate has
\* trade_count = the number of trade rows of the day, buy_count = those with
\* Side = BUY, win_trades = those with Closed PnL > 0, win_rate =
\* win_trades / trade_count * 100 and total_pnl = the sum of their Closed PnL.
C9_DailyRowCountsTrades ==
    \A d \in DaysOfTrades :
        \E i \in 1..Len(daily_data) :
            /\ daily_data[i].date = d
            /\ daily_data[i].trade_count = Len(RowsOfDay(d))
            /\ daily_data[i].buy_count =
                  Len(SelectSeq(RowsOfDay(d), LAMBDA r : r.side = "BUY"))
            /\ daily_data[i].win_trades =
                  Len(SelectSeq(RowsOfDay(d), LAMBDA r : ~IsNull(r.pnl) /\ r.pnl[1] > 0))
            /\ IsFinite(daily_data[i].win_rate)
            /\ FracEq(daily_data[i].win_rate,
                      Frac(daily_data[i].win_trades * 100, Len(RowsOfDay(d))))
            /\ daily_data[i].total_pnl = SumSeq(NonNull(Col(RowsOfDay(d), "pnl")))

---------------------------------------------------------------------------
(* Rows without a day, and the days of the aggregate: claims C11, C17 *)

\* the rows whose 'Timestamp IST' text does not parse
Unparseable(rows) == SelectSeq(rows, LAMBDA r : IsNull(ParseIST(r.ist)))
Parseable(rows) == SelectSeq(rows, LAMBDA r : ~IsNull(ParseIST(r.ist)))

\* C11: a trade row whose timestamp does not parse has a null datetime and a
\* null day; cleaning the table keeps it; the row-level merged table holds it
\* once, with null sentiment; and the daily aggregate is the one the table
\* has without such rows, so the row belongs to no day of it.
C11_UnparseableRowHasNoDay ==
    /\ \A i \in 1..Len(TradeRows) :
          IsNull(ParseIST(TradeRows[i].ist)) =>
              IsNull(TradeRows[i].datetime) /\ IsNull(TradeRows[i].date)
    /\ Unparseable(_clean_trading_data(
                       [cols |-> TradeColumns, rows |-> TradeRows]).rows)
          = Unparseable(TradeRows)
    /\ Unparseable(merged_data) =
          [i \in 1..Len(Unparseable(TradeRows)) |->
              Unparseable(TradeRows)[i] @@ [sentiment_score |-> None,
                                            sentiment_category |-> None]]
    /\ daily_data =
          _create_daily_aggregates(
              _merge_by_date(fear_greed_data,
                             [trading_data EXCEPT !.rows = Parseable(TradeRows)]))

\* a row without a day next to a row of a day that has a sentiment record
C11_Witness ==
    /\ Len(Unparseable(TradeRows)) >= 1
    /\ Len(fear_greed_data) >= 1
    /\ Len(daily_data) >= 1
    /\ \E i \in 1..Len(merged_data) : ~IsNull(merged_data[i].sentiment_score)
    /\ Len(merged_data) = Len(TradeRows)

\* C17: the daily aggregate has exactly one row for every day of the trade
\* table and no other row; a day that only the sentiment table has is not in
\* it, and no day is in it twice.
C17_OneRowPerTradeDay ==
    /\ {daily_data[i].date : i \in 1..Len(daily_data)} = DaysOfTrades
    /\ Len(daily_data) = Cardinality(DaysOfTrades)
    /\ \A i, j \in 1..Len(daily_data) :
          daily_data[i].date = daily_data[j].date => i = j

\* two trades on one day, a trade on another day, and a sentiment record of
\* a day without trades
C17_Witness ==
    /\ Len(TradeRows) = 3
    /\ Cardinality(DaysOfTrades) = 2
    /\ DaysOfSentiment \ DaysOfTrades # {}
    /\ Len(daily_data) = 2

---------------------------------------------------------------------------
(* Statistics views: claims C4, C5 *)

\* C4: when the sentiment table has a record only for D1 and trades occur on
\* days D1 < D2 < D3, the daily aggregate carries D1's sentiment on all three
\* days, and the rows used for statistics (those of
\* calculate_sentiment_trading_correlations and of get_correlation_data) are
\* the row of D1 alone.
C4_FilledDaysLeftOutOfStatistics ==
    ( /\ Len(fear_greed_data) = 1
      /\ Len(daily_data) = 3
      /\ daily_data[1].date = SentimentDayOf(fear_greed_data[1]) )
    =>
    ( /\ \A i \in 1..3 :
            /\ daily_data[i].sentiment_score = Some(fear_greed_data[1].value)
            /\ daily_data[i].sentiment_category = Some(fear_greed_data[1].classification)
      /\ Col(DropNaSentiment(daily_data), "date") = <<daily_data[1].date>>
      /\ ret.op = "get_correlation_data" =>
            Col(ret.val, "date") = <<daily_data[1].date>> )

\* the days that have both trades and a sentiment record of their own
AlignedDays == DaysOfTrades \cap DaysOfSentiment

\* C5: when exactly one day has both trades and sentiment,
\* calculate_sentiment_trading_correlations reports each of the four
\* correlations as 0, not as NaN.
C5_SinglePointCorrelationIsZero ==
    ( /\ Cardinality(AlignedDays) = 1
      /\ ret.op = "calculate_sentiment_trading_correlations" )
    =>
    ( /\ CorrIsZero(ret.val.sentiment_pnl)
      /\ CorrIsZero(ret.val.sentiment_volume)
      /\ CorrIsZero(ret.val.sentiment_trades)
      /\ CorrIsZero(ret.val.sentiment_winrate) )

---------------------------------------------------------------------------
(* The series functions applied to a series of their own: claims C6, C7 *)

MaxSeriesLen == 4
SeriesValues == {-10, 0, 5, 10}

NoAnalyzer ==
    /\ fear_greed_data = <<>>
    /\ trading_data = [cols |-> {}, rows |-> <<>>]
    /\ merged_data = <<>>
    /\ daily_data = <<>>
    /\ data_loaded = FALSE

InitSeries ==
    /\ NoAnalyzer
    /\ series \in SeqsUpTo(SeriesValues, MaxSeriesLen)
    /\ ret = NoRet

SharpeRatio ==
    /\ ret' = [op |-> "_calculate_sharpe_ratio", val |-> _calculate_sharpe_ratio(series)]
    /\ UNCHANGED Analyzer

MaxDrawdown ==
    /\ ret' = [op |-> "_calculate_max_drawdown", val |-> _calculate_max_drawdown(series)]
    /\ UNCHANGED Analyzer

NextSeries ==
    \/ SharpeRatio
    \/ MaxDrawdown

SpecSeries == InitSeries /\ [][NextSeries]_vars

IsConstant(xs) == \A i, j \in 1..Len(xs) : xs[i] = xs[j]

\* C6: _calculate_sharpe_ratio returns exactly 0 for an empty series and for
\* every constant series, also one of length 1; never NaN.
C6_SharpeZeroOnDegenerateSeries ==
    (ret.op = "_calculate_sharpe_ratio" /\ IsConstant(series)) => SharpeIsZero(ret.val)

\* the largest of the first i elements
PrefixMax(xs, i) == SetMax({xs[j] : j \in 1..i})

\* C7: _calculate_max_drawdown returns 0 for an empty series; for a non-empty
\* series it returns the minimum over i of series[i] - max(series[1..i]),
\* which is <= 0, and which is 0 exactly when no element is below the
\* maximum of the elements before it.
C7_MaxDrawdown ==
    ret.op = "_calculate_max_drawdown" =>
        /\ series = <<>> => ret.val = 0
        /\ series # <<>> =>
              ret.val = SetMin({series[i] - PrefixMax(series, i) : i \in 1..Len(series)})
        /\ ret.val <= 0
        /\ ret.val = 0 <=>
              \A i \in 1..Len(series) : \A j \in 1..(i - 1) : series[i] >= series[j]

\* a series that climbs, falls below its peak and climbs again
C7_Witness ==
    /\ ret.op = "_calculate_max_drawdown"
    /\ Len(series) = 4
    /\ series[1] < series[2]
    /\ series[3] < series[2]
    /\ series[4] > series[3]
    /\ ret.val = series[3] - series[2]

---------------------------------------------------------------------------
(* Calendar alignment at its three call sites: claim C10 *)

MaxDayRows == 2

\* local-time cells: two minutes of day 1, the last minute of day 2, and a
\* text the format does not match
DayISTCells == {<<1, 30>>, <<2, 1439>>, <<1>>}
\* epoch cells: an empty cell, a second of day 1, midnight of day 3
DayEpochCells == {None, Some(86400 + 59), Some(3 * 86400)}
\* 'Side' cells: "nan" is the missing value
DaySides == {"BUY", "nan"}

BaseColumns == {"Trade ID", "Side", "Closed PnL", "Size USD", "Fee"}

\* the raw trade tables: with either timestamp column, both, or none; the
\* 'Trade ID' of a row is its position in the file
DayRawTables ==
    {[cols |-> BaseColumns \cup tc,
      rows |-> [i \in 1..Len(cells) |->
                  [trade_id |-> i, ist |-> cells[i][1], ts |-> cells[i][2],
                   side |-> cells[i][3], pnl |-> Some(10), size |-> 100, fee |-> 1,
                   datetime |-> None, date |-> None]]] :
        tc \in SUBSET {"Timestamp IST", "Timestamp"},
        cells \in SeqsUpTo(DayISTCells \X DayEpochCells \X DaySides, MaxDayRows)}

\* the day each record of a table has, by 'Trade ID'
DayMap(rows) == {<<rows[i].trade_id, rows[i].date>> : i \in 1..Len(rows)}

InitDay ==
    /\ fear_greed_data = <<>>
    /\ trading_data \in DayRawTables
    /\ merged_data = <<>>
    /\ daily_data = <<>>
    /\ series = <<>>
    /\ data_loaded = FALSE
    /\ ret = NoRet

\* DataProcessor.load_trading_data: the table is cleaned and kept
CleanStep ==
    /\ trading_data' = _clean_trading_data(trading_data)
    /\ ret' = [op |-> "_clean_trading_data", val |-> DayMap(trading_data'.rows)]
    /\ UNCHANGED <<fear_greed_data, merged_data, daily_data, series, data_loaded>>

\* TradingAnalyzer._merge_by_date, on a copy of the table
MergeStep ==
    /\ ret' = [op |-> "_merge_by_date", val |-> DayMap(MergeTradingDf(trading_data))]
    /\ UNCHANGED Analyzer

\* DashboardVisualizer._prepare_daily_correlation_data, on a copy of the table
VizStep ==
    /\ ret' = [op |-> "_prepare_daily_correlation_data",
               val |-> DayMap(VizTradingDf(trading_data))]
    /\ UNCHANGED Analyzer

NextDay ==
    \/ CleanStep
    \/ MergeStep
    \/ VizStep

SpecDay == InitDay /\ [][NextDay]_vars

\* the day the stated precedence gives a record: the day named by its
\* 'Timestamp IST' text if the table has that column, else the day its epoch
\* second falls in if the table has 'Timestamp', else 2024-12-02 (day 20059)
PrecedenceDay(cols, r) ==
    IF "Timestamp IST" \in cols
    THEN (IF Len(r.ist) = 2 THEN Some(r.ist[1]) ELSE None)
    ELSE IF "Timestamp" \in cols
         THEN (IF r.ts = None THEN None
               ELSE Some(CHOOSE d \in 0..(r.ts[1]) :
                            d * 86400 <= r.ts[1] /\ r.ts[1] < (d + 1) * 86400))
         ELSE Some(20059)

DaySites == {"_clean_trading_data", "_merge_by_date", "_prepare_daily_correlation_data"}

\* C10: at each of the three call sites every record gets the day of the
\* stated precedence, so the sites agree on every record; and deriving the
\* day again on a processed table leaves every record's day as it is.
C10_SameDayAtEverySite ==
    /\ ret.op \in DaySites =>
          ret.val = {<<trading_data.rows[i].trade_id,
                       PrecedenceDay(trading_data.cols, trading_data.rows[i])>> :
                        i \in 1..Len(trading_data.rows)}
    /\ "date" \in trading_data.cols =>
          /\ DayMap(_clean_trading_data(trading_data).rows) = DayMap(trading_data.rows)
          /\ DayMap(MergeTradingDf(trading_data)) = DayMap(trading_data.rows)
          /\ DayMap(VizTradingDf(trading_data)) = DayMap(trading_data.rows)

\* the analyzer derives the days of a raw table that has both timestamp
\* columns, which name different days, and a text that does not parse
C10_Witness ==
    /\ ret.op = "_merge_by_date"
    /\ "date" \notin trading_data.cols
    /\ {"Timestamp IST", "Timestamp"} \subseteq trading_data.cols
    /\ Len(trading_data.rows) = 2
    /\ trading_data.rows[1].ist = <<2, 1439>>
    /\ trading_data.rows[1].ts = Some(3 * 86400)
    /\ trading_data.rows[2].ist = <<1>>
    /\ ret.val = {<<1, Some(2)>>, <<2, None>>}

---------------------------------------------------------------------------
(* The analyzer behind the insights and the summary report of the Advanced *)
(* tab (app.py, display_advanced_tab): claims C12, C16, C19 *)

MaxInsightTrades == 5
MaxInsightSent == 2

\* one winning and one losing trade kind for each of three days
InsightTradeRows ==
    {[ist |-> <<d, 0>>, ts |-> None, side |-> "BUY", pnl |-> Some(p), size |-> 100,
      fee |-> 1, datetime |-> None, date |-> None] : d \in TradeDays, p \in {10, -10}}

\* sentiment tables with at most one record per day, in order of day
OnePerDay(fg) == \A i \in 1..Len(fg) - 1 : fg[i].date < fg[i + 1].date

InitInsights ==
    /\ \E rs \in SeqsUpTo(InsightTradeRows, MaxInsightTrades) :
          /\ IsTimeOrdered(rs)
          /\ \E fg \in SeqsUpTo(DailySentimentRows, MaxInsightSent) :
                /\ OnePerDay(fg)
                /\ Constructed(_clean_fear_greed_data(fg),
                               _clean_trading_data([cols |-> TradeColumns, rows |-> rs]))
    /\ series = <<>>
    /\ ret = NoRet

QueryInsights ==
    /\ ret' = [op |-> "generate_insights",
               val |-> generate_insights(trading_data, daily_data)]
    /\ UNCHANGED Analyzer

QuerySummaryReport ==
    /\ ret' = [op |-> "generate_summary_report",
               val |-> generate_summary_report(fear_greed_data, trading_data, daily_data)]
    /\ UNCHANGED Analyzer

NextInsights ==
    \/ QueryTradingMetrics
    \/ QueryCorrelations
    \/ QueryInsights
    \/ QuerySummaryReport

SpecInsights == InitInsights /\ [][NextInsights]_vars

\* C12: when no row of the daily aggregate has a sentiment_score,
\* calculate_sentiment_trading_correlations returns the number 0, not NaN,
\* for each of the four correlations.
C12_NoSentimentGivesZeroCorrelations ==
    ( /\ ret.op = "calculate_sentiment_trading_correlations"
      /\ \A i \in 1..Len(daily_data) : IsNull(daily_data[i].sentiment_score) )
    =>
    ( /\ CorrIsZero(ret.val.sentiment_pnl)
      /\ CorrIsZero(ret.val.sentiment_volume)
      /\ CorrIsZero(ret.val.sentiment_trades)
      /\ CorrIsZero(ret.val.sentiment_winrate) )

\* trades on two days that both precede the only sentiment record
C12_Witness ==
    /\ ret.op = "calculate_sentiment_trading_correlations"
    /\ Len(daily_data) = 2
    /\ Len(fear_greed_data) = 1
    /\ \A i \in 1..2 : IsNull(daily_data[i].sentiment_score)
    /\ CorrIsZero(ret.val.sentiment_pnl)

---------------------------------------------------------------------------
(* The analyzer behind the statistical analysis of the Advanced tab *)
(* (app.py, display_advanced_tab): claims C13, C14, C15, C20 *)

MaxAdvTrades == 4
MaxAdvSent == 3

AdvTradeDays == {1, 2, 3, 4}
\* the Closed PnL of the trades of each day
AdvPnl == <<10, 10, -20, 30>>

AdvTradeRows ==
    {[ist |-> <<d, 0>>, ts |-> None, side |-> "BUY", pnl |-> Some(AdvPnl[d]),
      size |-> 100, fee |-> 1, datetime |-> None, date |-> None] : d \in AdvTradeDays}

AdvScoreLabels == {<<15, "Extreme Fear">>, <<40, "Fear">>, <<60, "Greed">>}

AdvSentimentRows ==
    {[date |-> d * 86400, value |-> sl[1], classification |-> sl[2],
      missing |-> {}] :
        d \in TradeDays, sl \in AdvScoreLabels}

InitAdvanced ==
    /\ \E rs \in SeqsUpTo(AdvTradeRows, MaxAdvTrades) :
          /\ IsTimeOrdered(rs)
          /\ \E fg \in SeqsUpTo(AdvSentimentRows, MaxAdvSent) :
                /\ OnePerDay(fg)
                /\ Constructed(_clean_fear_greed_data(fg),
                               _clean_trading_data([cols |-> TradeColumns, rows |-> rs]))
    /\ series = <<>>
    /\ ret = NoRet

QueryStatisticalTests ==
    /\ ret' = [op |-> "perform_statistical_tests",
               val |-> perform_statistical_tests(daily_data)]
    /\ UNCHANGED Analyzer

NextAdvanced ==
    \/ QueryStatisticalTests
    \/ QueryInsights

SpecAdvanced == InitAdvanced /\ [][NextAdvanced]_vars

Range(s) == {s[i] : i \in 1..Len(s)}

\* the rows of the daily aggregate that carry category c
DaysOfCategory(c) ==
    {i \in 1..Len(daily_data) : daily_data[i].sentiment_category = Some(c)}
Categories == {c \in Range(LabelOrder) : DaysOfCategory(c) # {}}
LabelledDays == UNION {DaysOfCategory(c) : c \in Categories}

\* C13: perform_statistical_tests has an entry for a category exactly when
\* the category has at least 2 days and the other categories together have
\* at least 2 days; sample_size of an entry is the number of days of its
\* category.
C13_TestedCategories ==
    ret.op = "perform_statistical_tests" =>
        /\ DOMAIN ret.val =
              {c \in Categories :
                  /\ Cardinality(DaysOfCategory(c)) >= 2
                  /\ Cardinality(LabelledDays \ DaysOfCategory(c)) >= 2}
        /\ \A c \in DOMAIN ret.val :
              ret.val[c].sample_size = Cardinality(DaysOfCategory(c))

\* three categories over four days: the one with 2 days has an entry, the
\* two with 1 day have none
C13_Witness ==
    /\ ret.op = "perform_statistical_tests"
    /\ Cardinality(Categories) = 3
    /\ Cardinality(DOMAIN ret.val) = 1
    /\ \A c \in DOMAIN ret.val : ret.val[c].sample_size = 2

\* the rows of the daily aggregate whose day has a sentiment record of its
\* own, and those among them whose record carries category c
OwnDays == {i \in 1..Len(daily_data) : daily_data[i].date \in DaysOfSentiment}
OwnDaysOfCategory(c) ==
    {i \in OwnDays :
        RecordsOfDay(daily_data[i].date)[1].classification = c}

\* C14: the samples of perform_statistical_tests hold only days with a
\* sentiment record of their own: the sample of a category has as many
\* observations as the category has such days, and the two samples of a test
\* together have as many as there are such days.
C14_SamplesHoldOwnDaysOnly ==
    ret.op = "perform_statistical_tests" =>
        \A c \in DOMAIN ret.val :
            /\ ret.val[c].sample_size = Cardinality(OwnDaysOfCategory(c))
            /\ ret.val[c].t_statistic.dof + 2 = Cardinality(OwnDays)

\* the row whose sentiment row i of the daily aggregate carries: row i when
\* its day has a record of its own, else the nearest row before it whose day
\* has one, 0 when there is none
SentimentSource(i) ==
    IF i \in OwnDays THEN i
    ELSE IF {j \in OwnDays : j < i} = {} THEN 0
         ELSE SetMax({j \in OwnDays : j < i})

\* C15: in the daily aggregate a day without a sentiment record of its own
\* carries the score and the category of the nearest earlier day of the
\* aggregate that has a record; a day with no such earlier day keeps null
\* sentiment, also when a later day has a record, stays in the aggregate and
\* is not among the rows calculate_sentiment_trading_correlations uses.
C15_ForwardFillOnly ==
    /\ {daily_data[i].date : i \in 1..Len(daily_data)} = DaysOfTrades
    /\ \A i \in 1..Len(daily_data) :
          IF SentimentSource(i) = 0
          THEN /\ IsNull(daily_data[i].sentiment_score)
               /\ IsNull(daily_data[i].sentiment_category)
               /\ daily_data[i].date \notin
                     Range(Col(DropNaSentiment(daily_data), "date"))
          ELSE LET own == RecordsOfDay(daily_data[SentimentSource(i)].date)[1]
               IN /\ daily_data[i].sentiment_score = Some(own.value)
                  /\ daily_data[i].sentiment_category = Some(own.classification)
                  /\ daily_data[i].date \in
                        Range(Col(DropNaSentiment(daily_data), "date"))

\* four days: the first has no record and none before it, the next two have
\* records of different categories, the last one has none and carries the
\* sentiment of the third
C15_Witness ==
    /\ Len(daily_data) = 4
    /\ OwnDays = {2, 3}
    /\ IsNull(daily_data[1].sentiment_score)
    /\ daily_data[2].sentiment_category # daily_data[3].sentiment_category
    /\ daily_data[4].sentiment_category = daily_data[3].sentiment_category
    /\ Len(DropNaSentiment(daily_data)) = 3

\* the mean daily total_pnl of category c
MeanOfCategory(c) ==
    Frac(SumSeq([k \in 1..Len(SortedSeq(DaysOfCategory(c))) |->
                    daily_data[SortedSeq(DaysOfCategory(c))[k]].total_pnl]),
         Cardinality(DaysOfCategory(c)))
BestCategories ==
    {c \in Categories : \A c2 \in Categories : FracLe(MeanOfCategory(c2), MeanOfCategory(c))}
WorstCategories ==
    {c \in Categories : \A c2 \in Categories : FracLe(MeanOfCategory(c), MeanOfCategory(c2))}
\* the category of S that the means of the group-by hold first: the group-by
\* orders its result by label
FirstOf(S) ==
    LabelOrder[SetMin({k \in 1..Len(LabelOrder) : LabelOrder[k] \in S})]
InsightsOfKind(kind) == SelectSeq(ret.val.insights, LAMBDA x : x.kind = kind)

\* C20: generate_insights names as best (worst) the category with the
\* greatest (least) mean daily total_pnl, the first of them in the order of
\* the group-by result when several categories have that mean; it names the
\* worst category only when it is not the best one, so with one category
\* there is a best and no worst insight.
C20_BestAndWorstCategory ==
    (ret.op = "generate_insights" /\ ret.val.raised = "none") =>
        /\ Categories = {} =>
              InsightsOfKind("best_sentiment") = <<>>
              /\ InsightsOfKind("worst_sentiment") = <<>>
        /\ Categories # {} =>
              /\ Col(InsightsOfKind("best_sentiment"), "category")
                    = <<FirstOf(BestCategories)>>
              /\ Col(InsightsOfKind("worst_sentiment"), "category")
                    = IF FirstOf(WorstCategories) # FirstOf(BestCategories)
                      THEN <<FirstOf(WorstCategories)>> ELSE <<>>
        /\ Cardinality(Categories) = 1 =>
              Len(InsightsOfKind("best_sentiment")) = 1
              /\ InsightsOfKind("worst_sentiment") = <<>>

\* three categories, two of them with the greatest mean, the later label on
\* the earlier day: the best is the first label, the worst is the third
\* category
C20_Witness ==
    /\ ret.op = "generate_insights"
    /\ Cardinality(Categories) = 3
    /\ Cardinality(BestCategories) = 2
    /\ daily_data[1].sentiment_category = Some("Greed")
    /\ BestCategories = {"Greed", "Fear"}
    /\ Col(InsightsOfKind("best_sentiment"), "category") = <<"Fear">>
    /\ Len(InsightsOfKind("worst_sentiment")) = 1

---------------------------------------------------------------------------
(* Insights and summary report: claims C16, C19 (under SpecInsights) *)

\* C16: with an empty trade table calculate_trading_metrics returns the
\* empty map, generate_insights returns a list of insights, and
\* generate_summary_report returns the table of eight rows with 0 for the
\* trade metrics; none of them raises.
C16_EmptyTradeTableDegrades ==
    Len(TradeRows) = 0 =>
        /\ ret.op = "calculate_trading_metrics" => DOMAIN ret.val = {}
        /\ ret.op = "generate_insights" => ret.val.raised = "none"
        /\ ret.op = "generate_summary_report" =>
              /\ Len(ret.val) = 8
              /\ ret.val[1].Value = 0
              /\ ret.val[2].Value = Frac(0, 1)
              /\ ret.val[3].Value = 0
              /\ ret.val[7].Value = SharpeZero
              /\ ret.val[8].Value = 0

---------------------------------------------------------------------------
(* utils.rolling_correlation applied to two columns of one frame: claim C18 *)

MaxRollLen == 2
MaxWindow == 3
\* the default of the window parameter
DefaultWindow == 30

RollValues == {0, 10}
\* the first label of the index of the frame
RollIndexStarts == {0, 7}

\* a series is [index, values]: the labels of its rows and their values
RollSeries ==
    {[index |-> [i \in 1..Len(v) |-> st + i - 1], values |-> v] :
        v \in SeqsUpTo(RollValues, MaxRollLen), st \in RollIndexStarts}

\* a series of nulls with the default index 0, 1, ... (for C18)
NullSeriesRangeIndex(series1) ==
    [index  |-> [i \in 1..Len(series1.values) |-> i - 1],
     values |-> [i \in 1..Len(series1.values) |-> None]]

\* pd.Series([np.nan] * len(series1), index=series1.index)
NullSeries(series1) ==
    [index  |-> series1.index,
     values |-> [i \in 1..Len(series1.values) |-> None]]

\* series1.rolling(window=window).corr(series2) for two series with the same
\* index: null before the window is full, and where the correlation of the
\* window is NaN
RollingCorr(series1, values2, window) ==
    [index  |-> series1.index,
     values |-> [i \in 1..Len(series1.values) |->
                   IF i < window THEN None
                   ELSE LET c == Corr(IntCol([k \in 1..window |->
                                         [v |-> series1.values[i - window + k]]], "v"),
                                      IntCol([k \in 1..window |->
                                         [v |-> values2[i - window + k]]], "v"))
                        IN IF c.nan THEN None ELSE Some(c)]]

\* rolling_correlation(series1, series2, window); the result is [raised,
\* result]: raised names the exception that ends the call, "none" when it
\* returns
rolling_correlation(series1, values2, window) ==
    IF Len(series1.values) # Len(values2)
    THEN [raised |-> "ValueError", result |-> NullSeries(series1)]
    ELSE IF Len(series1.values) < window
         THEN [raised |-> "none", result |-> NullSeries(series1)]
         ELSE [raised |-> "none", result |-> RollingCorr(series1, values2, window)]

InitRolling ==
    /\ NoAnalyzer
    /\ series \in RollSeries
    /\ ret = NoRet

RollingCorrelation ==
    /\ \E values2 \in SeqsUpTo(RollValues, MaxRollLen),
          window \in (1..MaxWindow) \cup {DefaultWindow} :
          ret' = [op |-> "rolling_correlation",
                  args |-> [series2 |-> values2, window |-> window],
                  val |-> rolling_correlation(series, values2, window)]
    /\ UNCHANGED Analyzer

NextRolling == RollingCorrelation

SpecRolling == InitRolling /\ [][NextRolling]_vars

\* C18: for two series of the same length n below the window,
\* rolling_correlation returns, without raising, a series of n nulls with the
\* index of series1.
C18_ShortSeriesGiveNulls ==
    ( /\ ret.op = "rolling_correlation"
      /\ Len(ret.args.series2) = Len(series.values)
      /\ Len(series.values) < ret.args.window )
    =>
    ( /\ ret.val.raised = "none"
      /\ ret.val.result.index = series.index
      /\ Len(ret.val.result.values) = Len(series.values)
      /\ \A i \in 1..Len(series.values) : IsNull(ret.val.result.values[i]) )

\* two different values under the labels 7, 8 and a window of 3
C18_Witness ==
    /\ ret.op = "rolling_correlation"
    /\ ret.args.window = 3
    /\ series.index = <<7, 8>>
    /\ series.values = <<0, 10>>
    /\ ret.args.series2 = <<10, 0>>
    /\ ret.val.raised = "none"
    /\ ret.val.result.values = <<None, None>>

---------------------------------------------------------------------------
(* All queries of one analyzer, in any order: claim C21 *)

MaxQueryTrades == 2
MaxQuerySent == 1

InitQueries ==
    /\ \E rs \in SeqsUpTo(InsightTradeRows, MaxQueryTrades) :
          /\ IsTimeOrdered(rs)
          /\ \E fg \in SeqsUpTo(DailySentimentRows, MaxQuerySent) :
                /\ OnePerDay(fg)
                /\ Constructed(_clean_fear_greed_data(fg),
                               _clean_trading_data([cols |-> TradeColumns, rows |-> rs]))
    /\ series = <<>>
    /\ ret = NoRet

QueryDetailedMetrics ==
    /\ ret' = [op |-> "get_detailed_metrics", val |-> get_detailed_metrics(daily_data)]
    /\ UNCHANGED Analyzer

NextQueries ==
    \/ QueryTradingMetrics
    \/ QueryCorrelations
    \/ QueryStatisticalTests
    \/ QueryInsights
    \/ QuerySummaryReport
    \/ QueryCorrelationData
    \/ QueryDetailedMetrics

SpecQueries == InitQueries /\ [][NextQueries]_vars

\* C21: no query changes the sentiment table, the trade table, merged_data
\* or daily_data, and a query called again returns what it returned before.
C21_QueriesAreReadOnly ==
    [][ /\ UNCHANGED <<fear_greed_data, trading_data, merged_data, daily_data>>
        /\ ret'.op = ret.op => ret'.val = ret.val ]_vars

\* get_correlation_data has returned fewer rows than the daily aggregate,
\* which still holds its row without sentiment
C21_Witness ==
    /\ ret.op = "get_correlation_data"
    /\ Len(daily_data) = 2
    /\ Len(ret.val) = 1
    /\ IsNull(daily_data[1].sentiment_score)

---------------------------------------------------------------------------
(* utils.detect_outliers: claim C22 *)

FracSub(f, g) == Frac(f.n * g.d - g.n * f.d, f.d * g.d)
FracAdd(f, g) == Frac(f.n * g.d + g.n * f.d, f.d * g.d)
FracMul(f, g) == Frac(f.n * g.n, f.d * g.d)
\* f < g for finite fractions; a comparison with NaN is False
FracLt(f, g) == IsFinite(f) /\ IsFinite(g) /\ f.n * g.d < g.n * f.d

\* Series.quantile(qn / qd), linear interpolation between the order
\* statistics around position q * (n - 1); NaN for an empty series
Quantile(xs, qn, qd) ==
    LET sorted == SortInts(xs)
        k == (qn * (Len(xs) - 1)) \div qd
        r == (qn * (Len(xs) - 1)) % qd
    IN IF Len(xs) = 0 THEN Frac(0, 0)
       ELSE IF r = 0 THEN Frac(sorted[k + 1], 1)
       ELSE Frac(qd * sorted[k + 1] + r * (sorted[k + 2] - sorted[k + 1]), qd)

\* (series < Q1 - threshold * IQR) | (series > Q3 + threshold * IQR) on row i
OutsideFences(xs, i, threshold) ==
    LET Q1 == Quantile(xs, 1, 4)
        Q3 == Quantile(xs, 3, 4)
        IQR == FracSub(Q3, Q1)
        lower_bound == FracSub(Q1, FracMul(threshold, IQR))
        upper_bound == FracAdd(Q3, FracMul(threshold, IQR))
    IN \/ FracLt(Frac(xs[i], 1), lower_bound)
       \/ FracLt(upper_bound, Frac(xs[i], 1))

\* np.abs((series - series.mean()) / series.std()) > threshold on row i,
\* compared on the squares: (n x - S)^2 / n^2 > threshold^2 * var.  The
\* z-score is NaN when std is NaN (one value) or 0 (0 / 0), and NaN > t is
\* False.
ZScoreAbove(xs, i, threshold) ==
    LET n == Len(xs)
        dev == n * xs[i] - SumSeq(xs)
        var == SeriesVar(xs)
    IN /\ ~IsNull(var)
       /\ var[1].n > 0
       /\ dev * dev * var[1].d * threshold.d * threshold.d
             > threshold.n * threshold.n * var[1].n * n * n

\* the default of the parameter threshold, whatever the method
DefaultThreshold == Frac(3, 2)

\* detect_outliers(series, method = 'iqr', threshold = 1.5); threshold is a
\* nullable cell, None when the caller does not pass it
detect_outliers(xs, method, threshold) ==
    LET t == IF IsNull(threshold) THEN DefaultThreshold ELSE threshold[1]
    IN IF method = "iqr"
       THEN [raised |-> "none",
             outliers |-> [i \in 1..Len(xs) |-> OutsideFences(xs, i, t)]]
       ELSE IF method = "zscore"
       THEN [raised |-> "none",
             outliers |-> [i \in 1..Len(xs) |-> ZScoreAbove(xs, i, t)]]
       ELSE [raised |-> "ValueError", outliers |-> <<>>]

MaxOutlierLen == 5
OutlierValues == {0, 5, 10}
Methods == {"iqr", "zscore", "mad"}
Thresholds == {None, Some(Frac(1, 1)), Some(Frac(3, 1))}

InitOutliers ==
    /\ NoAnalyzer
    /\ series \in SeqsUpTo(OutlierValues, MaxOutlierLen)
    /\ ret = NoRet

DetectOutliers ==
    \E method \in Methods, threshold \in Thresholds :
        /\ ret' = [op |-> "detect_outliers",
                   val |-> detect_outliers(series, method, threshold),
                   args |-> [method |-> method, threshold |-> threshold]]
        /\ UNCHANGED Analyzer

NextOutliers == DetectOutliers

SpecOutliers == InitOutliers /\ [][NextOutliers]_vars

DefaultCall(method) ==
    /\ ret.op = "detect_outliers"
    /\ ret.args.method = method
    /\ IsNull(ret.args.threshold)

\* C22: detect_outliers returns a boolean mask as long as its input under
\* both policies; called with default arguments, the IQR policy flags
\* exactly the values outside [Q1 - 1.5 IQR, Q3 + 1.5 IQR] and the z-score
\* policy flags exactly the values with |z| > 3.
C22_OutlierMask ==
    /\ (ret.op = "detect_outliers" /\ ret.args.method \in {"iqr", "zscore"}) =>
          /\ ret.val.raised = "none"
          /\ Len(ret.val.outliers) = Len(series)
          /\ \A i \in 1..Len(series) : ret.val.outliers[i] \in BOOLEAN
    /\ DefaultCall("iqr") =>
          \A i \in 1..Len(series) :
              ret.val.outliers[i] <=> OutsideFences(series, i, Frac(3, 2))
    /\ DefaultCall("zscore") =>
          \A i \in 1..Len(series) :
              ret.val.outliers[i] <=> ZScoreAbove(series, i, Frac(3, 1))

---------------------------------------------------------------------------
(* DataProcessor: loading and validate_data: claim C23.  Here              *)
(* fear_greed_data and trading_data are the attributes of the processor:   *)
(* None until a load succeeds, then Some(table), the table being           *)
(* [cols, rows].                                                           *)

\* load_fear_greed_data(file): read_csv, then _clean_fear_greed_data, which
\* reads df['value'] and sorts by 'date': a file without one of these
\* columns raises (KeyError, re-raised as Exception) and nothing is stored
load_fear_greed_data(file) ==
    IF {"date", "value"} \subseteq file.cols
    THEN [raised |-> "none",
          df |-> [cols |-> file.cols, rows |-> _clean_fear_greed_data(file.rows)]]
    ELSE [raised |-> "Exception", df |-> [cols |-> {}, rows |-> <<>>]]

\* load_trading_data(file): read_csv, then _clean_trading_data, whose
\* dropna(subset=['Side']) raises on a file without that column
load_trading_data(file) ==
    IF "Side" \in file.cols
    THEN [raised |-> "none", df |-> _clean_trading_data(file)]
    ELSE [raised |-> "Exception", df |-> [cols |-> {}, rows |-> <<>>]]

required_fg_cols == {"date", "value", "classification"}
required_trading_cols == {"Account", "Side", "Execution Price", "Size USD"}

\* not (0 <= value.min() <= value.max() <= 100); min and max of an empty
\* column are NaN, and a comparison with NaN is False
ValueOutOfRange(rows) ==
    LET values == {rows[i].value : i \in 1..Len(rows)}
    IN ~( /\ values # {}
          /\ 0 <= SetMin(values)
          /\ SetMin(values) <= SetMax(values)
          /\ SetMax(values) <= 100 )

\* validate_data: the list of issues, in the order they are appended
validate_data(fg, df) ==
    ( IF ~IsNull(fg) /\ required_fg_cols \ fg[1].cols # {}
      THEN <<[issue |-> "Fear/Greed data missing columns",
              missing_cols |-> required_fg_cols \ fg[1].cols]>>
      ELSE <<>> )
    \o
    ( IF ~IsNull(fg) /\ "value" \in fg[1].cols /\ ValueOutOfRange(fg[1].rows)
      THEN <<[issue |-> "Fear/Greed values should be between 0 and 100",
              missing_cols |-> {}]>>
      ELSE <<>> )
    \o
    ( IF ~IsNull(df) /\ required_trading_cols \ df[1].cols # {}
      THEN <<[issue |-> "Trading data missing columns",
              missing_cols |-> required_trading_cols \ df[1].cols]>>
      ELSE <<>> )

MaxFileRows == 2
FileValues == {-5, 50, 150}

\* sentiment files: with every column, and without one of them; a value
\* cell may hold a text that is not a number
SentimentColumns == {"timestamp", "value", "classification", "date"}
SentimentFileColumns ==
    {SentimentColumns} \cup {SentimentColumns \ {c} : c \in required_fg_cols}
SentimentFileRows ==
    {[date |-> 86400, value |-> v, classification |-> "Fear", missing |-> m] :
        v \in FileValues, m \in {{}, {"value"}}}
SentimentFiles ==
    {[cols |-> cs, rows |-> rs] :
        cs \in SentimentFileColumns, rs \in SeqsUpTo(SentimentFileRows, MaxFileRows)}

\* trade files: with every column, without 'Account', without 'Side'
AllTradeColumns == TradeColumns \cup required_trading_cols
TradeFileColumns ==
    {AllTradeColumns, AllTradeColumns \ {"Account"}, AllTradeColumns \ {"Side"}}
TradeFileRows == {r \in RawTradeRows : r.ist = <<1, 0>> /\ r.pnl = Some(10)}
TradeFiles ==
    {[cols |-> cs, rows |-> rs] :
        cs \in TradeFileColumns, rs \in SeqsUpTo(TradeFileRows, 1)}

\* DataProcessor.__init__
InitProcessor ==
    /\ fear_greed_data = None
    /\ trading_data = None
    /\ merged_data = <<>>
    /\ daily_data = <<>>
    /\ series = <<>>
    /\ data_loaded = FALSE
    /\ ret = NoRet

LoadFearGreedData ==
    \E file \in SentimentFiles :
        LET r == load_fear_greed_data(file)
        IN /\ fear_greed_data' =
                 IF r.raised = "none" THEN Some(r.df) ELSE fear_greed_data
           /\ ret' = [op |-> "load_fear_greed_data", val |-> r.raised]
           /\ UNCHANGED <<trading_data, merged_data, daily_data, series, data_loaded>>

LoadTradingData ==
    \E file \in TradeFiles :
        LET r == load_trading_data(file)
        IN /\ trading_data' =
                 IF r.raised = "none" THEN Some(r.df) ELSE trading_data
           /\ ret' = [op |-> "load_trading_data", val |-> r.raised]
           /\ UNCHANGED <<fear_greed_data, merged_data, daily_data, series, data_loaded>>

ValidateData ==
    /\ ret' = [op |-> "validate_data",
               val |-> validate_data(fear_greed_data, trading_data)]
    /\ UNCHANGED Analyzer

NextProcessor ==
    \/ LoadFearGreedData
    \/ LoadTradingData
    \/ ValidateData

SpecProcessor == InitProcessor /\ [][NextProcessor]_vars

Issues(text) == {i \in 1..Len(ret.val) : ret.val[i].issue = text}
LoadedValues ==
    IF IsNull(fear_greed_data) \/ "value" \notin fear_greed_data[1].cols THEN {}
    ELSE {fear_greed_data[1].rows[i].value : i \in 1..Len(fear_greed_data[1].rows)}
MissingFgCols ==
    IF IsNull(fear_greed_data) THEN {} ELSE required_fg_cols \ fear_greed_data[1].cols
MissingTradingCols ==
    IF IsNull(trading_data) THEN {} ELSE required_trading_cols \ trading_data[1].cols

\* C23: validate_data returns a list of issues: the list holds the range
\* issue whenever a loaded sentiment value is below 0 or above 100, a
\* missing-columns issue whenever a required column of a loaded table is
\* absent, and is empty when the loaded tables have all required columns and
\* every sentiment value is within 0..100.
C23_ValidateData ==
    ret.op = "validate_data" =>
        /\ (\E v \in LoadedValues : v < 0 \/ v > 100) =>
              Issues("Fear/Greed values should be between 0 and 100") # {}
        /\ MissingFgCols # {} => Issues("Fear/Greed data missing columns") # {}
        /\ MissingTradingCols # {} => Issues("Trading data missing columns") # {}
        /\ ( /\ MissingFgCols = {}
             /\ MissingTradingCols = {}
             /\ \A v \in LoadedValues : 0 <= v /\ v <= 100 ) => ret.val = <<>>

---------------------------------------------------------------------------
(* calculate_trading_metrics over the trade table and the daily aggregate: *)
(* claim C24 *)

ProfitableRows ==
    {i \in 1..Len(trading_data.rows) :
        ~IsNull(trading_data.rows[i].pnl) /\ trading_data.rows[i].pnl[1] > 0}

\* C24: for a non-empty trade table calculate_trading_metrics returns
\* total_trades = the number of rows, profitable_trades = the number of rows
\* with Closed PnL > 0, win_rate = profitable_trades / total_trades * 100 and
\* profitable_trades + losing_trades = total_trades; sharpe_ratio and
\* max_drawdown are those of the column total_pnl of the daily aggregate.
C24_TradingMetrics ==
    (ret.op = "calculate_trading_metrics" /\ Len(trading_data.rows) > 0) =>
        /\ ret.val.total_trades = Len(trading_data.rows)
        /\ ret.val.profitable_trades = Cardinality(ProfitableRows)
        /\ FracEq(ret.val.win_rate,
                  Frac(100 * Cardinality(ProfitableRows), Len(trading_data.rows)))
        /\ ret.val.profitable_trades + ret.val.losing_trades = ret.val.total_trades
        /\ ret.val.sharpe_ratio =
              _calculate_sharpe_ratio([i \in 1..Len(daily_data) |-> daily_data[i].total_pnl])
        /\ ret.val.max_drawdown =
              _calculate_max_drawdown(
                  [i \in 1..Len(daily_data) |->
                      SumSeq([j \in 1..i |-> daily_data[j].total_pnl])])

\* three trades on two days, one of them without PnL: the per-day series
\* <<10, -20>> has a Sharpe ratio and a drawdown of its own
C24_Witness ==
    /\ ret.op = "calculate_trading_metrics"
    /\ Len(trading_data.rows) = 3
    /\ Len(daily_data) = 2
    /\ daily_data[1].total_pnl = 10
    /\ daily_data[2].total_pnl = -20
    /\ ret.val.profitable_trades = 1
    /\ ret.val.losing_trades = 2
    /\ ~ret.val.sharpe_ratio.nan
    /\ ret.val.max_drawdown = -20

---------------------------------------------------------------------------
(* utils.calculate_risk_metrics: claim C25 *)

\* Series.mean(): NaN (0 / 0) for an empty series
Mean(xs) == Frac(SumSeq(xs), Len(xs))

\* the mean of the selection, also when nothing is selected (for C25)
MeanOfSelection(xs) == Mean(xs)

\* returns[cond].mean() if any(cond) else 0
MeanIfAny(xs) == IF Len(xs) > 0 THEN Mean(xs) ELSE Frac(0, 1)

\* calculate_risk_metrics; the empty map is <<>>, volatility is held as the
\* variance
calculate_risk_metrics(returns) ==
    IF Len(returns) = 0 THEN <<>>
    ELSE LET var_95 == Quantile(returns, 5, 100)
         IN [volatility |-> SeriesVar(returns),
             var_95     |-> var_95,
             cvar_95    |-> Mean(SelectSeq(returns,
                                 LAMBDA x : FracLe(Frac(x, 1), var_95))),
             max_loss   |-> SetMin({returns[i] : i \in 1..Len(returns)}),
             positive_returns_ratio |->
                 Frac(Len(SelectSeq(returns, LAMBDA x : x > 0)), Len(returns)),
             avg_positive_return |->
                 MeanIfAny(SelectSeq(returns, LAMBDA x : x > 0)),
             avg_negative_return |->
                 MeanIfAny(SelectSeq(returns, LAMBDA x : x < 0))]

RiskMetrics ==
    /\ ret' = [op |-> "calculate_risk_metrics", val |-> calculate_risk_metrics(series)]
    /\ UNCHANGED Analyzer

NextRisk == RiskMetrics

SpecRisk == InitSeries /\ [][NextRisk]_vars

IsZero(f) == IsFinite(f) /\ f.n = 0

\* C25: calculate_risk_metrics returns the empty map for an empty series;
\* otherwise avg_positive_return is 0 when no return is > 0 and
\* avg_negative_return is 0 when no return is < 0, and neither is ever NaN.
C25_RiskMetricsGuardEmptyMeans ==
    ret.op = "calculate_risk_metrics" =>
        /\ series = <<>> => ret.val = <<>>
        /\ series # <<>> =>
              /\ (\A i \in 1..Len(series) : ~(series[i] > 0)) =>
                    IsZero(ret.val.avg_positive_return)
              /\ (\A i \in 1..Len(series) : ~(series[i] < 0)) =>
                    IsZero(ret.val.avg_negative_return)
              /\ IsFinite(ret.val.avg_positive_return)
              /\ IsFinite(ret.val.avg_negative_return)

\* only losses: the positive mean is the guarded 0, the negative one is -10
C25_Witness ==
    /\ ret.op = "calculate_risk_metrics"
    /\ series = <<-10, -10>>
    /\ IsZero(ret.val.avg_positive_return)
    /\ FracEq(ret.val.avg_negative_return, Frac(-10, 1))

---------------------------------------------------------------------------
(* pnl_std of a day with one trade: claim C26 *)

\* C26: the row of the daily aggregate for a day that has exactly one trade
\* row has a null pnl_std, not 0.
C26_SingleTradeDayStdIsNull ==
    \A d \in DaysOfTrades :
        Len(RowsOfDay(d)) = 1 =>
            \E i \in 1..Len(daily_data) :
                /\ daily_data[i].date = d
                /\ IsNull(daily_data[i].pnl_std)

---------------------------------------------------------------------------
(* DashboardVisualizer._prepare_daily_correlation_data beside the daily     *)
(* aggregate of the analyzer, both built from the session tables            *)
(* (app.py, display_dashboard): claim C27 *)

\* the aggregate of the trade rows g of day d
VizAggRow(d, g) ==
    LET pnl == NonNull(Col(g, "pnl"))
    IN [date         |-> d,
        total_pnl    |-> SumSeq(pnl),
        avg_pnl      |-> Frac(SumSeq(pnl), Len(pnl)),
        trade_count  |-> TradeCount(g),
        total_volume |-> SumSeq(Col(g, "size")),
        buy_count    |-> BuyCount(g),
        win_count    |-> WinTrades(g),
        win_rate     |-> Frac(WinTrades(g) * 100, TradeCount(g))]

\* pd.merge(daily_trading, fg, on='date', how='inner'): one output row per
\* matching sentiment record, none for a day without a record
RECURSIVE InnerJoin(_, _)
InnerJoin(rows, fg) ==
    IF rows = <<>> THEN <<>>
    ELSE LET r == rows[1]
             m == SelectSeq(fg, LAMBDA f : f.date = Some(r.date))
         IN [i \in 1..Len(m) |->
               r @@ [sentiment_score |-> Cell(m[i], "value"),
                     sentiment_category |-> Cell(m[i], "classification")]]
            \o InnerJoin(Tail(rows), fg)

\* merged_data.dropna(): a row with a NaN mean or rate (a day without any
\* PnL value) or with a missing sentiment cell is dropped
VizDropNa(rows) ==
    SelectSeq(rows, LAMBDA r : /\ ~IsNaN(r.avg_pnl)
                               /\ ~IsNaN(r.win_rate)
                               /\ ~IsNull(r.sentiment_score)
                               /\ ~IsNull(r.sentiment_category))

_prepare_daily_correlation_data(fg, df) ==
    LET trading_df == VizTradingDf(df)
        keys == GroupKeys(trading_df)
        daily_trading == [i \in 1..Len(keys) |->
                            VizAggRow(keys[i], Group(trading_df, keys[i]))]
    IN VizDropNa(InnerJoin(daily_trading, FgDate(fg)))

PrepareDailyCorrelationData ==
    /\ ret' = [op |-> "_prepare_daily_correlation_data",
               val |-> _prepare_daily_correlation_data(fear_greed_data, trading_data)]
    /\ UNCHANGED Analyzer

NextVisualizer == PrepareDailyCorrelationData

SpecVisualizer == Init /\ [][NextVisualizer]_vars

\* C27: on every day that is both in the daily aggregate of the analyzer and
\* in the table of the visualizer, the two agree on total_pnl, trade_count,
\* buy_count, total_volume and win_rate; the table of the visualizer has at
\* most one row per day, and its days are exactly the days with trades that
\* have a sentiment record of their own.
C27_VisualizerAgreesWithAnalyzer ==
    ret.op = "_prepare_daily_correlation_data" =>
        /\ \A i \in 1..Len(ret.val) : \A j \in 1..Len(daily_data) :
              ret.val[i].date = daily_data[j].date =>
                  /\ ret.val[i].total_pnl = daily_data[j].total_pnl
                  /\ ret.val[i].trade_count = daily_data[j].trade_count
                  /\ ret.val[i].buy_count = daily_data[j].buy_count
                  /\ ret.val[i].total_volume = daily_data[j].total_volume
                  /\ FracEq(ret.val[i].win_rate, daily_data[j].win_rate)
        /\ \A i, j \in 1..Len(ret.val) : ret.val[i].date = ret.val[j].date => i = j
        /\ {ret.val[i].date : i \in 1..Len(ret.val)}
              = {d \in DaysOfTrades : RecordsOfDay(d) # <<>>}

---------------------------------------------------------------------------
(* The dashboard session (app.py, main): claims C28, C29.  Here             *)
(* fear_greed_data and trading_data are the tables of st.session_state:     *)
(* None until a load stores one, then Some(table); merged_data and          *)
(* daily_data are those of the TradingAnalyzer that display_dashboard       *)
(* builds on the rerun, <<>> when it builds none.                           *)

Session(fg, df, loaded) ==
    [fear_greed_data |-> fg, trading_data |-> df, data_loaded |-> loaded]

\* the branch "Load Sample Data" with data_loaded set right after the first
\* load (for C29)
LoadSampleDataFlagFirst(s, fg_file, trading_file) ==
    LET fg == load_fear_greed_data(fg_file)
        df == load_trading_data(trading_file)
    IN IF fg.raised # "none" THEN [session |-> s, outcome |-> "failed at sentiment"]
       ELSE IF df.raised # "none"
       THEN [session |-> Session(Some(fg.df), s.trading_data, TRUE),
             outcome |-> "failed at trades"]
       ELSE [session |-> Session(Some(fg.df), Some(df.df), TRUE),
             outcome |-> "loaded"]

\* the branch "Load Sample Data": each load is assigned to the session as
\* soon as it returns; an exception of either load ends the branch
LoadSampleData(s, fg_file, trading_file) ==
    LET fg == load_fear_greed_data(fg_file)
        df == load_trading_data(trading_file)
    IN IF fg.raised # "none" THEN [session |-> s, outcome |-> "failed at sentiment"]
       ELSE IF df.raised # "none"
       THEN [session |-> Session(Some(fg.df), s.trading_data, s.data_loaded),
             outcome |-> "failed at trades"]
       ELSE [session |-> Session(Some(fg.df), Some(df.df), TRUE),
             outcome |-> "loaded"]

\* the branch for two uploaded files: both loads go to locals, and the
\* session is assigned after both have returned
ProcessUploadedFiles(s, fg_file, trading_file) ==
    LET fear_greed_df == load_fear_greed_data(fg_file)
        trading_df == load_trading_data(trading_file)
    IN IF fear_greed_df.raised # "none"
       THEN [session |-> s, outcome |-> "failed at sentiment"]
       ELSE IF trading_df.raised # "none"
       THEN [session |-> s, outcome |-> "failed at trades"]
       ELSE [session |-> Session(Some(fear_greed_df.df), Some(trading_df.df), TRUE),
             outcome |-> "loaded"]

Skipped(s) == [session |-> s, outcome |-> "skipped"]

MaxSessionRows == 1

\* files: sentiment files with every column and one without 'value', trade
\* files with every column and one without 'Side' (these make a load raise)
SessionTradeRows ==
    {r \in RawTradeRows : /\ r.ist \in {<<1, 0>>, <<2, 0>>}
                          /\ r.side = "BUY"
                          /\ r.pnl = Some(10)}
SessionSentimentFiles ==
    {[cols |-> SentimentColumns, rows |-> rs] :
        rs \in {fg \in SeqsUpTo(DailySentimentRows, MaxSessionRows) : OnePerDay(fg)}}
    \cup {[cols |-> SentimentColumns \ {"value"}, rows |-> <<>>]}
SessionTradeFiles ==
    {[cols |-> TradeColumns, rows |-> rs] :
        rs \in {x \in SeqsUpTo(SessionTradeRows, MaxSessionRows) : IsTimeOrdered(x)}}
    \cup {[cols |-> TradeColumns \ {"Side"}, rows |-> <<>>]}

\* the sample files on disk: readable, or broken
SampleSentimentFiles ==
    {[cols |-> SentimentColumns, rows |-> <<>>],
     [cols |-> SentimentColumns \ {"value"}, rows |-> <<>>]}
SampleTradeFiles ==
    {[cols |-> TradeColumns, rows |-> <<>>],
     [cols |-> TradeColumns \ {"Side"}, rows |-> <<>>]}

\* session state initialisation
InitSession ==
    /\ fear_greed_data = None
    /\ trading_data = None
    /\ data_loaded = FALSE
    /\ merged_data = <<>>
    /\ daily_data = <<>>
    /\ series = <<>>
    /\ ret = NoRet

\* one rerun of main(): the sample branch, the upload branch, then the
\* dashboard when data_loaded is set
Rerun ==
    \E button \in BOOLEAN,
       fear_greed_file \in {None} \cup {Some(f) : f \in SessionSentimentFiles},
       trading_file \in {None} \cup {Some(f) : f \in SessionTradeFiles},
       sample_fg \in SampleSentimentFiles,
       sample_trading \in SampleTradeFiles :
        LET s0 == Session(fear_greed_data, trading_data, data_loaded)
            sample ==
                IF button \/ ( /\ IsNull(fear_greed_file)
                               /\ IsNull(trading_file)
                               /\ ~data_loaded )
                THEN LoadSampleData(s0, sample_fg, sample_trading)
                ELSE Skipped(s0)
            upload ==
                IF ~IsNull(fear_greed_file) /\ ~IsNull(trading_file)
                THEN ProcessUploadedFiles(sample.session, fear_greed_file[1],
                                          trading_file[1])
                ELSE Skipped(sample.session)
            s == upload.session
            built == /\ s.data_loaded
                     /\ ~IsNull(s.fear_greed_data)
                     /\ ~IsNull(s.trading_data)
        IN /\ fear_greed_data' = s.fear_greed_data
           /\ trading_data' = s.trading_data
           /\ data_loaded' = s.data_loaded
           /\ merged_data' =
                 IF built
                 THEN _merge_by_date(s.fear_greed_data[1].rows, s.trading_data[1])
                 ELSE <<>>
           /\ daily_data' =
                 IF built THEN _create_daily_aggregates(merged_data') ELSE <<>>
           /\ ret' = [op |-> "main",
                      val |-> [sample |-> sample.outcome,
                               upload |-> upload.outcome,
                               displayed |-> s.data_loaded]]
           /\ UNCHANGED series

NextSession == Rerun

SpecSession == InitSession /\ [][NextSession]_vars

Failed(outcome) == outcome \in {"failed at sentiment", "failed at trades"}

\* C28: a rerun in which a load attempt fails and none succeeds leaves the
\* sentiment table, the trade table and data_loaded of the session as they
\* were before it.
C28_FailedLoadLeavesSession ==
    [][ ( /\ Failed(ret'.val.sample) \/ Failed(ret'.val.upload)
          /\ ret'.val.sample # "loaded"
          /\ ret'.val.upload # "loaded" )
        => UNCHANGED <<fear_greed_data, trading_data, data_loaded>> ]_vars

\* C29: in every session state data_loaded implies that both session tables
\* are set; data_loaded never goes back from TRUE to FALSE; the dashboard is
\* displayed only when data_loaded is TRUE, over an analyzer built from the
\* session tables.
C29_DataLoadedGuardsDashboard ==
    [][ /\ data_loaded' => (~IsNull(fear_greed_data') /\ ~IsNull(trading_data'))
        /\ data_loaded => data_loaded'
        /\ ret'.val.displayed =>
              /\ data_loaded'
              /\ merged_data' = _merge_by_date(fear_greed_data'[1].rows, trading_data'[1]) ]_vars

\* the dashboard is displayed after a rerun whose sample load has failed at
\* its second step: the flag of an earlier load stays
C29_Witness ==
    /\ ret.op = "main"
    /\ ret.val.sample = "failed at trades"
    /\ ret.val.upload = "skipped"
    /\ ret.val.displayed
    /\ data_loaded
    /\ Len(trading_data[1].rows) = 1

---------------------------------------------------------------------------
(* Sentiment files with missing cells, cleaned by the loader and aggregated *)
(* by the analyzer: claim C30 *)

MaxPairTrades == 3
MaxPairSent == 2

PairTradeRows == {r \in InsightTradeRows : r.pnl = Some(10)}

\* records of days 1 and 2 whose value or classification cell may be empty;
\* a day may have several records
PairSentimentRows ==
    {[date |-> d * 86400, value |-> sl[1], classification |-> sl[2],
      missing |-> m] :
        d \in SentimentDays, sl \in ScoreLabels,
        m \in {{}, {"value"}, {"classification"}}}

InitPairing ==
    /\ \E rs \in SeqsUpTo(PairTradeRows, MaxPairTrades) :
          /\ IsTimeOrdered(rs)
          /\ \E fg \in SeqsUpTo(PairSentimentRows, MaxPairSent) :
                Constructed(_clean_fear_greed_data(fg),
                            _clean_trading_data([cols |-> TradeColumns, rows |-> rs]))
    /\ series = <<>>
    /\ ret = NoRet

NextPairing ==
    \/ Rebuild
    \/ QueryDetailedMetrics

SpecPairing == InitPairing /\ [][NextPairing]_vars

\* the rows of the daily aggregate up to row i whose day has a sentiment
\* record
RowsWithRecord(i) ==
    {j \in 1..i : RecordsOfDay(daily_data[j].date) # <<>>}

\* C30: in every row of the daily aggregate sentiment_score and
\* sentiment_category are both null, or they are the value and the
\* classification of one sentiment record: a record of the day itself, or,
\* for a day without a record, of the nearest earlier day of the aggregate
\* that has one.
C30_ScoreAndCategoryOfOneRecord ==
    \A i \in 1..Len(daily_data) :
        IF RowsWithRecord(i) = {}
        THEN /\ IsNull(daily_data[i].sentiment_score)
             /\ IsNull(daily_data[i].sentiment_category)
        ELSE LET records ==
                     RecordsOfDay(daily_data[SetMax(RowsWithRecord(i))].date)
             IN \E k \in 1..Len(records) :
                    /\ daily_data[i].sentiment_score = Some(records[k].value)
                    /\ daily_data[i].sentiment_category =
                          Some(records[k].classification)

\* day 1 has a record, day 2 has trades and no record: its row carries the
\* score and the category of the record of day 1; day 3 likewise
C30_Witness ==
    /\ ret.op = "get_detailed_metrics"
    /\ Len(ret.val) = 3
    /\ Len(fear_greed_data) = 1
    /\ fear_greed_data[1].date = 86400
    /\ ret.val[3].sentiment_score = Some(fear_greed_data[1].value)
    /\ ret.val[3].sentiment_category = Some(fear_greed_data[1].classification)

====
